---------------------------- MODULE Spec2Model ----------------------------
(***************************************************************************)
(* A model of the LSP client of edit-plus-plus (src/src/lsp.rs) and of the *)
(* editor code that feeds it (src/src/bin/edit/draw_editor.rs).            *)
(*                                                                         *)
(* Bytes are one-character strings, texts are sequences of bytes.  The     *)
(* child's stdout and stdin are byte streams; the event loop `run`, the    *)
(* reader `read_message` and the handlers are translated from the source.  *)
(* An Option is a sequence of length 0 (None) or 1 (Some).                 *)
(***************************************************************************)
EXTENDS Integers, Sequences, FiniteSets, TLC

(***************************************************************************)
(* Bounds of the model.                                                    *)
(***************************************************************************)
\* how many times the embedding program calls initialize() before run()
MaxInit == 2
\* how many frames the language server writes
MaxFrames == 2
\* how many edits the user makes
MaxEdits == 1
\* how many edits the user makes while the server is silent
MaxSilentEdits == 3
\* capacity of the bounded intent queue (mpsc::channel(n) of the embedder)
QueueCap == 2

(***************************************************************************)
(* Text helpers.                                                           *)
(***************************************************************************)
CR == "\r"
LF == "\n"
QUOTE == "\""

Digit == <<"0", "1", "2", "3", "4", "5", "6", "7", "8", "9">>

IsDigit(c) == \E i \in 1..10 : Digit[i] = c

DigitVal(c) == (CHOOSE i \in 1..10 : Digit[i] = c) - 1

\* char::is_whitespace, restricted to the bytes of the model
IsSpace(c) == c \in {" ", "\t", CR, LF}

\* format!("{}", n) for an unsigned integer
RECURSIVE DigitsOf(_)
DigitsOf(n) == IF n < 10 THEN <<Digit[n + 1]>>
               ELSE DigitsOf(n \div 10) \o <<Digit[(n % 10) + 1]>>

RECURSIVE DigitsVal(_)
DigitsVal(s) == IF s = <<>> THEN 0
                ELSE 10 * DigitsVal(SubSeq(s, 1, Len(s) - 1)) + DigitVal(s[Len(s)])

\* str::parse::<usize>(): an optional '+', then one or more decimal digits
ParseUsize(s) ==
    LET d == IF s # <<>> /\ s[1] = "+" THEN Tail(s) ELSE s
    IN  IF d # <<>> /\ \A i \in 1..Len(d) : IsDigit(d[i])
        THEN <<DigitsVal(d)>> ELSE <<>>

RECURSIVE TrimStart(_)
TrimStart(s) == IF s # <<>> /\ IsSpace(s[1]) THEN TrimStart(Tail(s)) ELSE s

RECURSIVE TrimEnd(_)
TrimEnd(s) == IF s # <<>> /\ IsSpace(s[Len(s)])
              THEN TrimEnd(SubSeq(s, 1, Len(s) - 1)) ELSE s

\* str::trim()
Trim(s) == TrimEnd(TrimStart(s))

\* str::splitn(2, ": "): split at the first occurrence of colon-space
SplitN2(s) ==
    LET hits == {i \in 1..(Len(s) - 1) : s[i] = ":" /\ s[i + 1] = " "}
    IN  IF hits = {} THEN <<s>>
        ELSE LET i == CHOOSE k \in hits : \A j \in hits : k <= j
             IN  <<SubSeq(s, 1, i - 1), SubSeq(s, i + 2, Len(s))>>

\* the byte 0xFF, which no UTF-8 text contains
BAD_BYTE == "xFF"

\* String::from_utf8 / the UTF-8 check at the end of read_line
IsUtf8(s) == \A i \in 1..Len(s) : s[i] # BAD_BYTE

(***************************************************************************)
(* JSON (serde_json).  A Value is a record tagged by t.  An object keeps   *)
(* its members as a sequence of [k, v] pairs in document order.  The       *)
(* grammar covers objects, arrays, strings with the escapes \" and \\,     *)
(* unsigned decimal integers and the three literals.                       *)
(***************************************************************************)
Null == [t |-> "null"]
Bool(b) == [t |-> "bool", b |-> b]
Num(n) == [t |-> "num", n |-> n]
Str(s) == [t |-> "str", s |-> s]
Arr(a) == [t |-> "arr", a |-> a]
Obj(o) == [t |-> "obj", o |-> o]
Member(k, v) == [k |-> k, v |-> v]

BACKSLASH == "\\"

\* the text of a string between its quotes: quote, backslash and the line
\* terminators escaped
RECURSIVE Escape(_)
Escape(s) ==
    IF s = <<>> THEN <<>>
    ELSE (IF s[1] \in {QUOTE, BACKSLASH} THEN <<BACKSLASH, s[1]>>
          ELSE IF s[1] = LF THEN <<BACKSLASH, "n">>
          ELSE IF s[1] = CR THEN <<BACKSLASH, "r">>
          ELSE <<s[1]>>)
         \o Escape(Tail(s))

\* serde_json::to_string: compact output, members in map order
RECURSIVE to_string(_)
RECURSIVE JoinValues(_)
RECURSIVE JoinMembers(_)
JoinValues(a) ==
    IF a = <<>> THEN <<>>
    ELSE to_string(a[1]) \o (IF Len(a) > 1 THEN <<",">> ELSE <<>>) \o JoinValues(Tail(a))
JoinMembers(o) ==
    IF o = <<>> THEN <<>>
    ELSE <<QUOTE>> \o Escape(o[1].k) \o <<QUOTE, ":">> \o to_string(o[1].v)
         \o (IF Len(o) > 1 THEN <<",">> ELSE <<>>) \o JoinMembers(Tail(o))
to_string(v) ==
    CASE v.t = "null" -> <<"n", "u", "l", "l">>
      [] v.t = "bool" -> IF v.b THEN <<"t", "r", "u", "e">> ELSE <<"f", "a", "l", "s", "e">>
      [] v.t = "num"  -> DigitsOf(v.n)
      [] v.t = "str"  -> <<QUOTE>> \o Escape(v.s) \o <<QUOTE>>
      [] v.t = "arr"  -> <<"[">> \o JoinValues(v.a) \o <<"]">>
      [] v.t = "obj"  -> <<"{">> \o JoinMembers(v.o) \o <<"}">>

\* the parser's results: a failure, or a value and the index after it
Fail == [ok |-> FALSE, v |-> Null, i |-> 0]
Got(v, i) == [ok |-> TRUE, v |-> v, i |-> i]

RECURSIVE SkipWs(_, _)
SkipWs(s, i) == IF i <= Len(s) /\ IsSpace(s[i]) THEN SkipWs(s, i + 1) ELSE i

\* whether text w stands in s at index i
LooksAt(s, i, w) == /\ i + Len(w) - 1 <= Len(s)
                    /\ \A j \in 1..Len(w) : s[i + j - 1] = w[j]

RECURSIVE DigitRunEnd(_, _)
DigitRunEnd(s, i) == IF i <= Len(s) /\ IsDigit(s[i]) THEN DigitRunEnd(s, i + 1) ELSE i

ParseNumber(s, i) ==
    LET e == DigitRunEnd(s, i)
    IN  IF e = i \/ (s[i] = "0" /\ e > i + 1) THEN Fail
        ELSE Got(Num(DigitsVal(SubSeq(s, i, e - 1))), e)

\* the index of the first c in s from index i on, or 0 when there is none
RECURSIVE IndexFrom(_, _, _)
IndexFrom(s, c, i) == IF i > Len(s) THEN 0
                      ELSE IF s[i] = c THEN i
                      ELSE IndexFrom(s, c, i + 1)

\* the rest of a string from index j on, acc holding what was read of it:
\* it ends at the next quote that is not escaped
RECURSIVE StringRest(_, _, _)
StringRest(s, j, acc) ==
    IF j > Len(s) \/ s[j] \in {CR, LF} THEN Fail
    ELSE IF s[j] = QUOTE THEN Got(Str(acc), j + 1)
    ELSE IF s[j] = BACKSLASH
         THEN IF j + 1 <= Len(s) /\ s[j + 1] \in {QUOTE, BACKSLASH}
              THEN StringRest(s, j + 2, Append(acc, s[j + 1]))
              ELSE IF j + 1 <= Len(s) /\ s[j + 1] = "n"
              THEN StringRest(s, j + 2, Append(acc, LF))
              ELSE IF j + 1 <= Len(s) /\ s[j + 1] = "r"
              THEN StringRest(s, j + 2, Append(acc, CR))
              ELSE Fail
    ELSE StringRest(s, j + 1, Append(acc, s[j]))

\* a string starts at the quote at index i
ParseString(s, i) ==
    IF i > Len(s) \/ s[i] # QUOTE THEN Fail
    ELSE StringRest(s, i + 1, <<>>)

RECURSIVE ParseValue(_, _)
RECURSIVE ParseItems(_, _, _)
RECURSIVE ParseMembers(_, _, _)

\* the items of an array after '[' or ',': acc holds those read so far
ParseItems(s, i, acc) ==
    LET r == ParseValue(s, SkipWs(s, i))
    IN  IF ~r.ok THEN Fail
        ELSE LET j == SkipWs(s, r.i)
             IN  IF j > Len(s) THEN Fail
                 ELSE IF s[j] = "]" THEN Got(Arr(Append(acc, r.v)), j + 1)
                 ELSE IF s[j] = "," THEN ParseItems(s, j + 1, Append(acc, r.v))
                 ELSE Fail

\* the members of an object after '{' or ','
ParseMembers(s, i, acc) ==
    LET k == ParseString(s, SkipWs(s, i))
    IN  IF ~k.ok THEN Fail
        ELSE LET c == SkipWs(s, k.i)
             IN  IF c > Len(s) \/ s[c] # ":" THEN Fail
                 ELSE LET r == ParseValue(s, SkipWs(s, c + 1))
                      IN  IF ~r.ok THEN Fail
                          ELSE LET j == SkipWs(s, r.i)
                                   m == Append(acc, Member(k.v.s, r.v))
                               IN  IF j > Len(s) THEN Fail
                                   ELSE IF s[j] = "}" THEN Got(Obj(m), j + 1)
                                   ELSE IF s[j] = "," THEN ParseMembers(s, j + 1, m)
                                   ELSE Fail

ParseValue(s, i) ==
    IF i > Len(s) THEN Fail
    ELSE CASE s[i] = "{" ->
                LET j == SkipWs(s, i + 1)
                IN  IF j <= Len(s) /\ s[j] = "}" THEN Got(Obj(<<>>), j + 1)
                    ELSE ParseMembers(s, i + 1, <<>>)
           [] s[i] = "[" ->
                LET j == SkipWs(s, i + 1)
                IN  IF j <= Len(s) /\ s[j] = "]" THEN Got(Arr(<<>>), j + 1)
                    ELSE ParseItems(s, i + 1, <<>>)
           [] s[i] = QUOTE -> ParseString(s, i)
           [] IsDigit(s[i]) -> ParseNumber(s, i)
           [] LooksAt(s, i, <<"n", "u", "l", "l">>) -> Got(Null, i + 4)
           [] LooksAt(s, i, <<"t", "r", "u", "e">>) -> Got(Bool(TRUE), i + 4)
           [] LooksAt(s, i, <<"f", "a", "l", "s", "e">>) -> Got(Bool(FALSE), i + 5)
           [] OTHER -> Fail

\* serde_json::from_str: one value, nothing but white space around it.
\* None (<<>>) is a syntax error.
from_str(s) ==
    LET r == ParseValue(s, SkipWs(s, 1))
    IN  IF r.ok /\ SkipWs(s, r.i) > Len(s) THEN <<r.v>> ELSE <<>>

(***************************************************************************)
(* ServerMessage: an untagged enum, so serde tries the variants in the     *)
(* order written, Response first.  A derived struct variant is read from   *)
(* a map (every field exactly once, unknown keys ignored) or from a        *)
(* sequence of exactly its fields.                                         *)
(***************************************************************************)
K_id == <<"i", "d">>
K_result == <<"r", "e", "s", "u", "l", "t">>
K_method == <<"m", "e", "t", "h", "o", "d">>
K_params == <<"p", "a", "r", "a", "m", "s">>

Response(id, result) == [kind |-> "Response", id |-> id, result |-> result]
Notification(method, params) == [kind |-> "Notification", method |-> method, params |-> params]

\* the values of the members of object members o whose key is k
Field(o, k) == LET at == {i \in 1..Len(o) : o[i].k = k}
               IN  IF Cardinality(at) = 1 THEN <<o[CHOOSE i \in at : TRUE].v>> ELSE <<>>

\* variant Response { id: u64, result: Value }
AsResponse(v) ==
    CASE v.t = "obj" ->
            LET id == Field(v.o, K_id)
                result == Field(v.o, K_result)
                dup == \E k \in {K_id, K_result} :
                          Cardinality({i \in 1..Len(v.o) : v.o[i].k = k}) > 1
            IN  IF ~dup /\ id # <<>> /\ result # <<>> /\ id[1].t = "num"
                THEN <<Response(id[1].n, result[1])>> ELSE <<>>
      [] v.t = "arr" ->
            IF Len(v.a) = 2 /\ v.a[1].t = "num"
            THEN <<Response(v.a[1].n, v.a[2])>> ELSE <<>>
      [] OTHER -> <<>>

\* variant Notification { method: String, params: Value }
AsNotification(v) ==
    CASE v.t = "obj" ->
            LET method == Field(v.o, K_method)
                params == Field(v.o, K_params)
                dup == \E k \in {K_method, K_params} :
                          Cardinality({i \in 1..Len(v.o) : v.o[i].k = k}) > 1
            IN  IF ~dup /\ method # <<>> /\ params # <<>> /\ method[1].t = "str"
                THEN <<Notification(method[1].s, params[1])>> ELSE <<>>
      [] v.t = "arr" ->
            IF Len(v.a) = 2 /\ v.a[1].t = "str"
            THEN <<Notification(v.a[1].s, v.a[2])>> ELSE <<>>
      [] OTHER -> <<>>

\* the variants tried in the other order
NotificationFirst(v) ==
    IF AsNotification(v) # <<>> THEN AsNotification(v) ELSE AsResponse(v)

\* #[serde(untagged)] enum ServerMessage: the first variant that fits
DeserializeServerMessage(v) ==
    IF AsResponse(v) # <<>> THEN AsResponse(v) ELSE AsNotification(v)

\* serde_json::from_str::<ServerMessage>
ServerMessageFromStr(s) ==
    LET v == from_str(s)
    IN  IF v = <<>> THEN <<>> ELSE DeserializeServerMessage(v[1])

(***************************************************************************)
(* read_message, as a future that is polled: its locals live in rd, it     *)
(* consumes what the stream holds and either completes or stays pending.   *)
(*   rd.at             "line" (in read_line) or "body" (in read_exact)     *)
(*   rd.content_length the local content_length                            *)
(*   rd.line           what read_line has taken of the current line        *)
(*   rd.content        what read_exact has taken of the body               *)
(***************************************************************************)
CONTENT_LENGTH == <<"C", "o", "n", "t", "e", "n", "t", "-", "L", "e", "n", "g", "t", "h">>

NewRead == [at |-> "line", content_length |-> <<>>, line |-> <<>>, content |-> <<>>]

Pending == [st |-> "Pending", msg |-> <<>>, why |-> "-"]
OkSome(m) == [st |-> "Ok", msg |-> <<m>>, why |-> "message"]
\* Ok(None): why tells end of stream from a header block without a length
OkNone(why) == [st |-> "Ok", msg |-> <<>>, why |-> why]
Err(why) == [st |-> "Err", msg |-> <<>>, why |-> why]

Polled(rd, used, res) == [rd |-> rd, used |-> used, res |-> res]

\* a reader that takes the number of any header line that has one
HeaderLineAnyKey(content_length, line) ==
    LET parts == SplitN2(Trim(line))
    IN  IF Len(parts) = 2
        THEN LET n == ParseUsize(parts[2])
             IN  IF n = <<>> THEN [ok |-> FALSE, content_length |-> content_length]
                 ELSE [ok |-> TRUE, content_length |-> n]
        ELSE [ok |-> TRUE, content_length |-> content_length]

\* lines 285-288: the header line's effect on content_length
HeaderLine(content_length, line) ==
    LET parts == SplitN2(Trim(line))
    IN  IF Len(parts) = 2 /\ parts[1] = CONTENT_LENGTH
        THEN LET n == ParseUsize(parts[2])
             IN  IF n = <<>> THEN [ok |-> FALSE, content_length |-> content_length]
                 ELSE [ok |-> TRUE, content_length |-> n]
        ELSE [ok |-> TRUE, content_length |-> content_length]

\* lines 291-300, once read_exact has filled content
Decode(content) ==
    IF ~IsUtf8(content) THEN Err("utf8")
    ELSE LET m == ServerMessageFromStr(content)
         IN  IF m = <<>> THEN Err("json") ELSE OkSome(m[1])

RECURSIVE ReadPoll(_, _, _, _)
ReadPoll(rd, avail, eof, used) ==
    IF rd.at = "line"
    THEN LET nl == IndexFrom(avail, LF, 1)
             n == IF nl # 0 THEN nl ELSE Len(avail)
             line == rd.line \o SubSeq(avail, 1, n)
             rest == SubSeq(avail, n + 1, Len(avail))
         IN  IF nl = 0 /\ ~eof
             THEN Polled([rd EXCEPT !.line = line], used + n, Pending)
             ELSE IF ~IsUtf8(line) THEN Polled(rd, used + n, Err("io"))
             ELSE IF Len(line) = 0 THEN Polled(rd, used, OkNone("eof"))
             ELSE IF Trim(line) = <<>>
                  THEN IF rd.content_length = <<>>
                       THEN Polled(rd, used + n, OkNone("no_length"))
                       ELSE ReadPoll([rd EXCEPT !.at = "body", !.line = <<>>],
                                     rest, eof, used + n)
             ELSE LET h == HeaderLine(rd.content_length, line)
                  IN  IF ~h.ok THEN Polled(rd, used + n, Err("parse_int"))
                      ELSE ReadPoll([rd EXCEPT !.content_length = h.content_length,
                                               !.line = <<>>],
                                    rest, eof, used + n)
    ELSE LET need == rd.content_length[1] - Len(rd.content)
         IN  IF Len(avail) >= need
             THEN Polled(rd, used + need, Decode(rd.content \o SubSeq(avail, 1, need)))
             ELSE IF eof THEN Polled(rd, used + Len(avail), Err("unexpected_eof"))
             ELSE Polled([rd EXCEPT !.content = rd.content \o avail],
                         used + Len(avail), Pending)

\* one poll of the read_message future rd on the stream's unread bytes
read_message(rd, avail, eof) == ReadPoll(rd, avail, eof, 0)

(***************************************************************************)
(* The state.                                                              *)
(***************************************************************************)
VARIABLES
    \* LspClient
    stdin,              \* the bytes written to the child's input stream
    stdout,             \* the unread bytes of the child's output stream
    next_request_id,
    pending_requests,   \* id -> the completion channel whose Sender it holds
    \* the completion channels made by send_request, in order of creation:
    \* buf the values sent and not received, rx who holds the Receiver
    \* ("task": a detached initialize task, "completion": the completion
    \* call, "dropped"), got what the holder's recv() returned
    chan,
    \* run
    pc,                 \* "Idle", "Select", "Completion" (line 184), "Closed"
    recv_off,           \* select!: the rx.recv() branch is disabled
    read_off,           \* select!: the read_message branch is disabled ("-": not)
    rd,                 \* the read_message future of this select!
    await_rx,           \* the channel the completion call awaits
    \* the two queues between the editor and run
    rx,                 \* the intents sent and not received
    tx_alive,           \* the editor still holds the intent Sender
    responses,          \* the LspResponses sent to the editor
    \* the editor (draw_highlighted_editor)
    generation,         \* doc.buffer.generation()
    buffer_generation,  \* doc.buffer_generation
    editor_pc,          \* "ready", "send_change" (line 85), "send_completion" (line 91)
    \* the language server
    child_alive,        \* the child runs: its ends of the pipes are open
    srv,                \* the frame it is writing and how much of it is out: [f, n]
    \* history
    written,            \* how many frames the server has written completely
    owed,               \* the messages of those frames that are not dispatched yet
    all_good,           \* every frame the server has begun carries a message
    out_of_order,       \* a message was dispatched that was not the oldest owed
    handled,            \* the intents handed to handle_client_message
    issued,             \* the identifiers send_request has allocated
    sent,               \* the messages written completely to stdin: [id, method]
    errors,             \* how many errors run has logged: [client] line 205, [server] line 210
    warnings,           \* how many times line 231 has warned of an unknown id
    calls,              \* the calls made before run: [initialize, did_open]
    \* the functions of the client taken alone (see PureSpec)
    arg,                \* the input a function is applied to
    out                 \* what it gave: <<>> before it is applied

vars == <<stdin, stdout, next_request_id, pending_requests, chan, pc, recv_off,
          read_off, rd, await_rx, rx, tx_alive, responses, generation,
          buffer_generation, editor_pc, child_alive, srv, written, owed,
          all_good, out_of_order, handled, issued, sent, errors,
          warnings, calls, arg, out>>

(***************************************************************************)
(* The client's messages.  json! builds a serde_json Map, whose members    *)
(* are serialized in key order.                                            *)
(***************************************************************************)
K_jsonrpc == <<"j", "s", "o", "n", "r", "p", "c">>
V_2_0 == <<"2", ".", "0">>
M_initialize == <<"i", "n", "i", "t", "i", "a", "l", "i", "z", "e">>
M_didOpen == <<"t", "e", "x", "t", "D", "o", "c", "u", "m", "e", "n", "t", "/",
               "d", "i", "d", "O", "p", "e", "n">>
M_didChange == <<"t", "e", "x", "t", "D", "o", "c", "u", "m", "e", "n", "t", "/",
                 "d", "i", "d", "C", "h", "a", "n", "g", "e">>
M_completion == <<"t", "e", "x", "t", "D", "o", "c", "u", "m", "e", "n", "t", "/",
                  "c", "o", "m", "p", "l", "e", "t", "i", "o", "n">>
M_logMessage == <<"w", "i", "n", "d", "o", "w", "/", "l", "o", "g", "M", "e", "s",
                  "s", "a", "g", "e">>

\* lines 92-97
RequestJson(id, method, params) ==
    Obj(<<Member(K_id, Num(id)), Member(K_jsonrpc, Str(V_2_0)),
          Member(K_method, Str(method)), Member(K_params, params)>>)

\* a notification that is given an id, like a request
NotificationWithId(method, params) ==
    Obj(<<Member(K_id, Num(1)), Member(K_jsonrpc, Str(V_2_0)),
          Member(K_method, Str(method)), Member(K_params, params)>>)

\* lines 106-110
NotificationJson(method, params) ==
    Obj(<<Member(K_jsonrpc, Str(V_2_0)), Member(K_method, Str(method)),
          Member(K_params, params)>>)

\* a header that counts one byte more than the body has
HeaderOneMore(content_length) ==
    CONTENT_LENGTH \o <<":", " ">> \o DigitsOf(content_length + 1) \o <<CR, LF, CR, LF>>

\* format!("Content-Length: {}\r\n\r\n", content_length)
Header(content_length) ==
    CONTENT_LENGTH \o <<":", " ">> \o DigitsOf(content_length) \o <<CR, LF, CR, LF>>

\* the member k of the object that is the member j of object value v, if any
Nested(v, j, k) ==
    IF v.t # "obj" \/ Field(v.o, j) = <<>> \/ Field(v.o, j)[1].t # "obj" THEN <<>>
    ELSE Field(Field(v.o, j)[1].o, k)

\* what the history keeps of a message written to stdin: its id (0 when it
\* has none), its method, and its params.textDocument.version (0 when it
\* has none)
Summary(message) ==
    LET params == Field(message.o, K_params)
        method == Field(message.o, K_method)
        version == IF params = <<>> THEN <<>>
                   ELSE Nested(params[1],
                               <<"t", "e", "x", "t", "D", "o", "c", "u", "m", "e", "n", "t">>,
                               <<"v", "e", "r", "s", "i", "o", "n">>)
    IN  [id |-> IF Field(message.o, K_id) = <<>> THEN 0
                ELSE Field(message.o, K_id)[1].n,
         method |-> IF method = <<>> THEN <<>> ELSE method[1].s,
         version |-> IF version = <<>> THEN 0 ELSE version[1].n]

(***************************************************************************)
(* The parameters of the requests, as serde_json::to_value gives them      *)
(* (lsp_types), cut down to the fields the client sets.                    *)
(***************************************************************************)
K_uri == <<"u", "r", "i">>
K_text == <<"t", "e", "x", "t">>
K_version == <<"v", "e", "r", "s", "i", "o", "n">>
K_textDocument == <<"t", "e", "x", "t", "D", "o", "c", "u", "m", "e", "n", "t">>
K_position == <<"p", "o", "s", "i", "t", "i", "o", "n">>
K_line == <<"l", "i", "n", "e">>
K_character == <<"c", "h", "a", "r", "a", "c", "t", "e", "r">>
K_contentChanges == <<"c", "o", "n", "t", "e", "n", "t", "C", "h", "a", "n", "g", "e", "s">>
K_processId == <<"p", "r", "o", "c", "e", "s", "s", "I", "d">>
K_message == <<"m", "e", "s", "s", "a", "g", "e">>
K_type == <<"t", "y", "p", "e">>
K_label == <<"l", "a", "b", "e", "l">>
K_items == <<"i", "t", "e", "m", "s">>
K_isIncomplete == <<"i", "s", "I", "n", "c", "o", "m", "p", "l", "e", "t", "e">>

\* the one document of the model and its text
Uri == <<"f", "i", "l", "e", ":", "/", "/", "/", "a">>
Text == <<"x">>

\* lines 115-123
InitializeParams == Obj(<<Member(K_processId, Num(1))>>)

\* lines 139-141
DidOpenParams(uri, text) ==
    Obj(<<Member(K_textDocument,
                 Obj(<<Member(K_text, Str(text)), Member(K_uri, Str(uri)),
                       Member(K_version, Num(1))>>))>>)

\* lines 150-157
DidChangeParams(uri, text, version) ==
    Obj(<<Member(K_contentChanges, Arr(<<Obj(<<Member(K_text, Str(text))>>)>>)),
          Member(K_textDocument,
                 Obj(<<Member(K_uri, Str(uri)), Member(K_version, Num(version))>>))>>)

\* lines 170-178
CompletionParams(uri, position) ==
    Obj(<<Member(K_position,
                 Obj(<<Member(K_character, Num(position.character)),
                       Member(K_line, Num(position.line))>>)),
          Member(K_textDocument, Obj(<<Member(K_uri, Str(uri))>>))>>)

(***************************************************************************)
(* The methods of LspClient, as functions of the client `self`: a record   *)
(* of the fields (and of the history they write).  A method gives the      *)
(* client after the call and the call's result.                            *)
(***************************************************************************)
Self == [stdin |-> stdin, next_request_id |-> next_request_id,
         pending_requests |-> pending_requests, chan |-> chan,
         issued |-> issued, sent |-> sent, warnings |-> warnings]

Apply(self) == /\ stdin' = self.stdin
               /\ next_request_id' = self.next_request_id
               /\ pending_requests' = self.pending_requests
               /\ chan' = self.chan
               /\ issued' = self.issued
               /\ sent' = self.sent
               /\ warnings' = self.warnings

EmptyMap == [i \in {} |-> 0]
Insert(m, k, v) == [i \in DOMAIN m \cup {k} |-> IF i = k THEN v ELSE m[i]]
\* a remove that leaves the entry in the map
RemoveNothing(m, k) == m

Remove(m, k) == [i \in DOMAIN m \ {k} |-> m[i]]

\* mpsc::channel(1), both halves held by send_request
NewChan == [buf |-> <<>>, rx |-> "send_request", got |-> <<>>]

\* the Sender of channel c lives in the pending-request map, and nowhere else
SenderAlive(m, c) == \E id \in DOMAIN m : m[id] = c

\* a send that writes the body before its header
send_body_first(self, message) ==
    LET message_str == to_string(message)
    IN  IF child_alive
        THEN [self |-> [self EXCEPT !.stdin = @ \o message_str \o Header(Len(message_str)),
                                    !.sent = Append(@, Summary(message))],
              ok |-> TRUE]
        ELSE [self |-> self, ok |-> FALSE]

\* lines 73-82.  A write to a pipe whose read end is closed fails, and
\* then nothing of the frame is written.
send_message(self, message) ==
    LET message_str == to_string(message)
        content_length == Len(message_str)
        header == Header(content_length)
    IN  IF child_alive
        THEN [self |-> [self EXCEPT !.stdin = @ \o header \o message_str,
                                    !.sent = Append(@, Summary(message))],
              ok |-> TRUE]
        ELSE [self |-> self, ok |-> FALSE]

\* a counter that is not advanced
NextIdStuck(id) == id

\* a counter that starts again at 1 after 2
NextIdAround(id) == IF id >= 2 THEN 1 ELSE id + 1

\* line 90
NextId(id) == id + 1

\* line 100
Register(m, id, c) == Insert(m, id, c)

\* lines 84-103: rx is the channel whose Receiver the caller gets, and
\* holder who the caller is
send_request(self, method, params, holder) ==
    LET id == self.next_request_id
        c == Len(self.chan) + 1
        s1 == [self EXCEPT !.next_request_id = NextId(id),
                           !.issued = Append(@, id),
                           !.chan = Append(@, NewChan),
                           !.pending_requests = Register(@, id, c)]
        w == send_message(s1, RequestJson(id, method, params))
    IN  IF w.ok
        THEN [self |-> [w.self EXCEPT !.chan[c].rx = holder], ok |-> TRUE, rx |-> c]
        ELSE [self |-> [w.self EXCEPT !.chan[c].rx = "dropped"], ok |-> FALSE, rx |-> 0]

\* lines 105-112
send_notification(self, method, params) ==
    send_message(self, NotificationJson(method, params))

\* lines 114-136: the detached task takes the Receiver
initialize(self) == send_request(self, M_initialize, InitializeParams, "task")

\* lines 138-147
did_open(self, uri, text) == send_notification(self, M_didOpen, DidOpenParams(uri, text))

\* lines 149-163
did_change(self, uri, text, version) ==
    send_notification(self, M_didChange, DidChangeParams(uri, text, version))

\* lines 165-182: completion up to its recv().await
completion_request(self, uri, position) ==
    send_request(self, M_completion, CompletionParams(uri, position), "completion")

\* a CompletionItem (lsp_types) needs its label; the model keeps the label
AsCompletionItems(v) ==
    IF /\ v.t = "arr"
       /\ \A i \in 1..Len(v.a) :
             /\ v.a[i].t = "obj"
             /\ Field(v.a[i].o, K_label) # <<>>
             /\ Field(v.a[i].o, K_label)[1].t = "str"
    THEN <<[i \in 1..Len(v.a) |-> Field(v.a[i].o, K_label)[1].s]>>
    ELSE <<>>

\* a CompletionResponse that has the Array variant only
ArrayOnly(response) == AsCompletionItems(response)

\* lines 184-190: serde_json::from_value::<CompletionResponse>, an untagged
\* enum Array(Vec<CompletionItem>) | List(CompletionList), and the match
completion_items(response) ==
    IF AsCompletionItems(response) # <<>> THEN AsCompletionItems(response)
    ELSE IF /\ response.t = "obj"
            /\ Field(response.o, K_isIncomplete) # <<>>
            /\ Field(response.o, K_isIncomplete)[1].t = "bool"
            /\ Field(response.o, K_items) # <<>>
         THEN AsCompletionItems(Field(response.o, K_items)[1])
         ELSE <<>>

\* a delivery that sends the items twice
deliver_twice(delivered, response) ==
    LET items == completion_items(response)
    IN  IF items = <<>> THEN [responses |-> delivered, ok |-> FALSE]
        ELSE [responses |-> delivered \o <<items[1], items[1]>>, ok |-> TRUE]

\* lines 184-190 and 250-253 once recv() has given the reply: the items go
\* to the editor as one LspResponse::Completion, or the error is returned
\* and nothing is sent
deliver_completion(delivered, response) ==
    LET items == completion_items(response)
    IN  IF items = <<>> THEN [responses |-> delivered, ok |-> FALSE]
        ELSE [responses |-> Append(delivered, items[1]), ok |-> TRUE]

\* lines 241-257, what handle_client_message does to the editor's response
\* queue: nothing for a DidChange; for a Completion, reply being what
\* recv() gave (None when the channel was closed), nothing for None
\* (lines 191, 250) and else the delivery
respond(delivered, kind, reply) ==
    IF kind = "DidChange" \/ reply = <<>> THEN [responses |-> delivered, ok |-> TRUE]
    ELSE deliver_completion(delivered, reply[1])

\* lines 260-271: whether the handler returns Ok
handle_notification(method, params) ==
    IF method = M_logMessage
    THEN /\ params.t = "obj"
         /\ Field(params.o, K_type) # <<>>
         /\ Field(params.o, K_type)[1].t = "num"
         /\ Field(params.o, K_message) # <<>>
         /\ Field(params.o, K_message)[1].t = "str"
    ELSE TRUE

\* a resolve that takes the Sender registered first, whatever the id
ResolveOldest(self, id, result) ==
    LET first == CHOOSE k \in DOMAIN self.pending_requests :
                     \A j \in DOMAIN self.pending_requests : k <= j
        tx == self.pending_requests[first]
        s1 == [self EXCEPT !.pending_requests = Remove(@, first)]
    IN  IF self.chan[tx].rx = "dropped"
        THEN [self |-> s1, ok |-> FALSE]
        ELSE [self |-> [s1 EXCEPT !.chan[tx].buf = Append(@, result)], ok |-> TRUE]

\* a resolve that sends and leaves the Sender in the map
ResolveAndKeep(self, id, result) ==
    LET tx == self.pending_requests[id]
    IN  IF self.chan[tx].rx = "dropped"
        THEN [self |-> self, ok |-> FALSE]
        ELSE [self |-> [self EXCEPT !.chan[tx].buf = Append(@, result)], ok |-> TRUE]

\* lines 228-229: the Sender leaves the map and sends once; the send fails
\* when the Receiver is gone
Resolve(self, id, result) ==
    LET tx == self.pending_requests[id]
        s1 == [self EXCEPT !.pending_requests = Remove(@, id)]
    IN  IF self.chan[tx].rx = "dropped"
        THEN [self |-> s1, ok |-> FALSE]
        ELSE [self |-> [s1 EXCEPT !.chan[tx].buf = Append(@, result)], ok |-> TRUE]

\* an unknown id treated as an error of the handler
UnknownIsError(self, id) == [self |-> [self EXCEPT !.warnings = @ + 1], ok |-> FALSE]

\* lines 230-232
Unknown(self, id) == [self |-> [self EXCEPT !.warnings = @ + 1], ok |-> TRUE]

\* a handler that answers a notification on the child's stdin
AnswerNotification(self, message) ==
    IF message.kind = "Response"
    THEN IF message.id \in DOMAIN self.pending_requests
         THEN Resolve(self, message.id, message.result)
         ELSE Unknown(self, message.id)
    ELSE send_message(self, NotificationJson(message.method, message.params))

\* lines 221-239
handle_server_message(self, message) ==
    IF message.kind = "Response"
    THEN IF message.id \in DOMAIN self.pending_requests
         THEN Resolve(self, message.id, message.result)
         ELSE Unknown(self, message.id)
    ELSE [self |-> self, ok |-> handle_notification(message.method, message.params)]

(***************************************************************************)
(* The language server: the frames it may write.  It writes a frame whole  *)
(* or in two pieces, and it may exit at any time, also between the pieces. *)
(* It writes a piece when the pipe is empty: a piece written earlier would *)
(* wait in the pipe and be read in the same poll.  For the same reason it  *)
(* writes, and the user edits, once run has started: what comes before is  *)
(* only queued.                                                            *)
(***************************************************************************)
K_error == <<"e", "r", "r", "o", "r">>

Frame(header, body) == header \o body

\* a reply to request id: a completion list of one item, labelled by the id
ResultFor(id) == Arr(<<Obj(<<Member(K_label, Str(DigitsOf(id)))>>)>>)

ResponseBody(id) ==
    to_string(Obj(<<Member(K_id, Num(id)), Member(K_jsonrpc, Str(V_2_0)),
                    Member(K_result, ResultFor(id))>>))

LogMessageBody ==
    to_string(Obj(<<Member(K_jsonrpc, Str(V_2_0)), Member(K_method, Str(M_logMessage)),
                    Member(K_params, Obj(<<Member(K_message, Str(<<"m">>)),
                                           Member(K_type, Num(3))>>))>>))

\* a JSON-RPC error reply: valid JSON that is neither variant of ServerMessage
ErrorReplyBody ==
    to_string(Obj(<<Member(K_error, Num(1)), Member(K_id, Num(1)),
                    Member(K_jsonrpc, Str(V_2_0))>>))

\* the identifiers the server answers: those initialize can allocate.  (A
\* completion request that was written is never answered to any effect: see
\* Recv.)
ResponseIds == 1..MaxInit

FrameKinds == [kind : {"response"}, id : ResponseIds]
              \cup [kind : {"log", "error_reply", "lowercase", "bad_byte"}, id : {0}]

\* a logMessage whose params are not LogMessageParams: type is missing and
\* message is not a string
BadLogParams == Obj(<<Member(K_message, Num(1))>>)

BadLogMessageBody ==
    to_string(Obj(<<Member(K_jsonrpc, Str(V_2_0)), Member(K_method, Str(M_logMessage)),
                    Member(K_params, BadLogParams)>>))

\* a notification of a method the client does not know
M_unknown == <<"$", "/", "x">>

UnknownBody ==
    to_string(Obj(<<Member(K_jsonrpc, Str(V_2_0)), Member(K_method, Str(M_unknown)),
                    Member(K_params, Null)>>))

\* the notifications of a server that writes nothing else
NotificationKinds == [kind : {"log", "bad_log", "unknown"}, id : {0}]

\* the bytes of a frame
FrameBytesOf(f) ==
    CASE f.kind = "response" ->
            Frame(Header(Len(ResponseBody(f.id))), ResponseBody(f.id))
      [] f.kind = "log" -> Frame(Header(Len(LogMessageBody)), LogMessageBody)
      [] f.kind = "bad_log" -> Frame(Header(Len(BadLogMessageBody)), BadLogMessageBody)
      [] f.kind = "unknown" -> Frame(Header(Len(UnknownBody)), UnknownBody)
      [] f.kind = "error_reply" -> Frame(Header(Len(ErrorReplyBody)), ErrorReplyBody)
      \* the header key in lower case: a block without a usable length
      [] f.kind = "lowercase" ->
            Frame(<<"c", "o", "n", "t", "e", "n", "t", "-", "l", "e", "n", "g", "t", "h",
                    ":", " ", "2", CR, LF, CR, LF>>, <<"{", "}">>)
      \* a header line that is not UTF-8: read_line fails with an I/O error
      [] f.kind = "bad_byte" ->
            Frame(<<"X", ":", " ", BAD_BYTE, CR, LF>> \o Header(2), <<"{", "}">>)

FrameTable == [f \in FrameKinds \cup NotificationKinds |-> FrameBytesOf(f)]

FrameBytes(f) == FrameTable[f]

\* the ServerMessage a frame carries, if it carries one
FrameMessage(f) ==
    CASE f.kind = "response" -> <<Response(f.id, ResultFor(f.id))>>
      [] f.kind = "log" ->
            <<Notification(M_logMessage, Obj(<<Member(K_message, Str(<<"m">>)),
                                               Member(K_type, Num(3))>>))>>
      [] f.kind = "bad_log" -> <<Notification(M_logMessage, BadLogParams)>>
      [] f.kind = "unknown" -> <<Notification(M_unknown, Null)>>
      [] OTHER -> <<>>

\* where the server may cut a frame in two: after the first header line,
\* and after the first byte of the body
CutsOf(bytes) ==
    LET nl == {i \in 1..Len(bytes) : bytes[i] = LF}
        first == CHOOSE i \in nl : \A j \in nl : i <= j
        blank == CHOOSE i \in nl : i > 2 /\ bytes[i - 2] = LF
    IN  {first, blank + 1} \cap 1..(Len(bytes) - 1)

\* the pieces the server may write first: the whole frame, or for a frame
\* that carries a message, the frame up to a cut
CutTable ==
    [f \in FrameKinds |->
        (IF f.kind \in {"response", "log"} THEN CutsOf(FrameTable[f]) ELSE {})
        \cup {Len(FrameTable[f])}]

NoFrame == [f |-> [kind |-> "none", id |-> 0], n |-> 0]

ServerWrite(f, cut) ==
    /\ pc # "Idle"
    /\ child_alive
    /\ srv = NoFrame
    /\ stdout = <<>>
    /\ written < MaxFrames
    /\ stdout' = stdout \o SubSeq(FrameBytes(f), 1, cut)
    /\ all_good' = (all_good /\ FrameMessage(f) # <<>>)
    /\ IF cut = Len(FrameBytes(f))
       THEN /\ srv' = srv
            /\ written' = written + 1
            /\ owed' = owed \o FrameMessage(f)
       ELSE /\ srv' = [f |-> f, n |-> cut]
            /\ UNCHANGED <<written, owed>>
    /\ UNCHANGED <<stdin, next_request_id, pending_requests, chan, pc,
                   recv_off, read_off, rd, await_rx, rx, tx_alive,
                   responses, generation, buffer_generation, editor_pc,
                   child_alive, out_of_order, handled, issued,
                   sent, errors, warnings, calls>>
    /\ UNCHANGED <<arg, out>>

ServerWriteRest ==
    /\ child_alive
    /\ srv # NoFrame
    /\ stdout = <<>>
    /\ stdout' = stdout \o SubSeq(FrameBytes(srv.f), srv.n + 1, Len(FrameBytes(srv.f)))
    /\ srv' = NoFrame
    /\ written' = written + 1
    /\ owed' = owed \o FrameMessage(srv.f)
    /\ UNCHANGED <<stdin, next_request_id, pending_requests, chan, pc,
                   recv_off, read_off, rd, await_rx, rx, tx_alive,
                   responses, generation, buffer_generation, editor_pc,
                   child_alive, all_good, out_of_order, handled, issued,
                   sent, errors, warnings, calls>>
    /\ UNCHANGED <<arg, out>>

\* the child exits: both pipes lose their far end
ServerExit ==
    /\ child_alive
    /\ child_alive' = FALSE
    /\ UNCHANGED <<stdin, stdout, next_request_id, pending_requests, chan,
                   pc, recv_off, read_off, rd, await_rx, rx, tx_alive,
                   responses, generation, buffer_generation, editor_pc, srv,
                   written, owed, all_good, out_of_order,
                   handled, issued, sent, errors, warnings, calls>>
    /\ UNCHANGED <<arg, out>>

(***************************************************************************)
(* The editor: draw_highlighted_editor and the user who edits.             *)
(***************************************************************************)
DidChange(uri, text, version) ==
    [kind |-> "DidChange", uri |-> uri, text |-> text, version |-> version,
     position |-> [line |-> 0, character |-> 0]]
Completion(uri, position) ==
    [kind |-> "Completion", uri |-> uri, text |-> <<>>, version |-> 0,
     position |-> position]

\* the user changes the buffer, up to n times
EditUpTo(n) ==
    /\ pc # "Idle"
    /\ tx_alive
    /\ editor_pc = "ready"
    /\ generation < n
    /\ generation' = generation + 1
    /\ UNCHANGED <<stdin, stdout, next_request_id, pending_requests, chan,
                   pc, recv_off, read_off, rd, await_rx, rx, tx_alive,
                   responses, buffer_generation, editor_pc, child_alive,
                   srv, written, owed, all_good, out_of_order,
                   handled, issued, sent, errors, warnings, calls>>
    /\ UNCHANGED <<arg, out>>

Edit == EditUpTo(MaxEdits)

\* doc.path is Some: the document of the program is the file it has opened,
\* unless the editor is taken with a document that has no path
HasPath == IF arg.fn = "editor" THEN arg.path ELSE TRUE

\* a draw that sends whether the generation has changed or not
DrawAlways ==
    /\ tx_alive
    /\ editor_pc = "ready"
    /\ HasPath
    /\ buffer_generation' = generation
    /\ editor_pc' = "send_change"
    /\ UNCHANGED <<stdin, stdout, next_request_id, pending_requests, chan,
                   pc, recv_off, read_off, rd, await_rx, rx, tx_alive,
                   responses, generation, child_alive, srv, written, owed,
                   all_good, out_of_order, handled, issued,
                   sent, errors, warnings, calls>>
    /\ UNCHANGED <<arg, out>>

\* lines 62-72 and 79-80: a draw that finds the generation changed, of a
\* document that has a path.  (A draw that finds it unchanged changes
\* nothing: lines 65 and 78.)
Draw ==
    /\ tx_alive
    /\ editor_pc = "ready"
    /\ buffer_generation # generation
    /\ HasPath
    /\ buffer_generation' = generation
    /\ editor_pc' = "send_change"
    /\ UNCHANGED <<stdin, stdout, next_request_id, pending_requests, chan,
                   pc, recv_off, read_off, rd, await_rx, rx, tx_alive,
                   responses, generation, child_alive, srv, written, owed,
                   all_good, out_of_order, handled, issued,
                   sent, errors, warnings, calls>>
    /\ UNCHANGED <<arg, out>>

\* lines 62-72 and 79: a draw that finds the generation changed, of a
\* document without a path: the generation is recorded, nothing is sent
DrawNoPath ==
    /\ tx_alive
    /\ editor_pc = "ready"
    /\ buffer_generation # generation
    /\ ~HasPath
    /\ buffer_generation' = generation
    /\ UNCHANGED <<stdin, stdout, next_request_id, pending_requests, chan,
                   pc, recv_off, read_off, rd, await_rx, rx, tx_alive,
                   responses, generation, editor_pc, child_alive, srv, written,
                   owed, all_good, out_of_order, handled, issued,
                   sent, errors, warnings, calls>>
    /\ UNCHANGED <<arg, out>>

\* tx.send(msg).await on the bounded queue: it waits while the queue is
\* full, and fails (the error is logged, the draw goes on) once run has
\* returned and dropped the Receiver
Send(msg) ==
    /\ pc = "Closed" \/ Len(rx) < QueueCap
    /\ rx' = IF pc = "Closed" THEN rx ELSE Append(rx, msg)

\* line 85
SendChange ==
    /\ editor_pc = "send_change"
    /\ Send(DidChange(Uri, Text, 1))
    /\ editor_pc' = "send_completion"
    /\ UNCHANGED <<stdin, stdout, next_request_id, pending_requests, chan,
                   pc, recv_off, read_off, rd, await_rx, tx_alive,
                   responses, generation, buffer_generation, child_alive,
                   srv, written, owed, all_good, out_of_order,
                   handled, issued, sent, errors, warnings, calls>>
    /\ UNCHANGED <<arg, out>>

\* lines 89-91
SendCompletion ==
    /\ editor_pc = "send_completion"
    /\ Send(Completion(Uri, [line |-> 0, character |-> 1]))
    /\ editor_pc' = "ready"
    /\ UNCHANGED <<stdin, stdout, next_request_id, pending_requests, chan,
                   pc, recv_off, read_off, rd, await_rx, tx_alive,
                   responses, generation, buffer_generation, child_alive,
                   srv, written, owed, all_good, out_of_order,
                   handled, issued, sent, errors, warnings, calls>>
    /\ UNCHANGED <<arg, out>>

\* the editor quits and drops the intent Sender
EditorExit ==
    /\ tx_alive
    /\ editor_pc = "ready"
    /\ tx_alive' = FALSE
    /\ UNCHANGED <<stdin, stdout, next_request_id, pending_requests, chan,
                   pc, recv_off, read_off, rd, await_rx, rx, responses,
                   generation, buffer_generation, editor_pc, child_alive,
                   srv, written, owed, all_good, out_of_order,
                   handled, issued, sent, errors, warnings, calls>>
    /\ UNCHANGED <<arg, out>>

(***************************************************************************)
(* The embedding program before run: initialize and did_open.              *)
(***************************************************************************)
Initialize ==
    /\ pc = "Idle"
    /\ calls.initialize < MaxInit
    /\ calls.did_open = 0
    /\ Apply(initialize(Self).self)
    /\ calls' = [calls EXCEPT !.initialize = @ + 1]
    /\ UNCHANGED <<stdout, pc, recv_off, read_off, rd, await_rx, rx,
                   tx_alive, responses, generation, buffer_generation,
                   editor_pc, child_alive, srv, written, owed, all_good,
                   out_of_order, handled, errors>>
    /\ UNCHANGED <<arg, out>>

DidOpen ==
    /\ pc = "Idle"
    /\ calls.did_open < 1
    /\ Apply(did_open(Self, Uri, Text).self)
    /\ calls' = [calls EXCEPT !.did_open = @ + 1]
    /\ UNCHANGED <<stdout, pc, recv_off, read_off, rd, await_rx, rx,
                   tx_alive, responses, generation, buffer_generation,
                   editor_pc, child_alive, srv, written, owed, all_good,
                   out_of_order, handled, errors>>
    /\ UNCHANGED <<arg, out>>

(***************************************************************************)
(* run (lines 196-219).  A select! polls the futures of its enabled        *)
(* branches; a future that completes with a value its pattern refuses      *)
(* disables the branch; when the other branch wins, the read_message       *)
(* future is dropped with its locals and with the bytes it has consumed.   *)
(***************************************************************************)
\* the loop comes back to select!, with both branches enabled and new futures
NextSelect ==
    /\ pc' = "Select"
    /\ recv_off' = FALSE
    /\ read_off' = "-"
    /\ rd' = NewRead
    /\ await_rx' = 0

\* a loop that is started again after it has returned
RunAgain ==
    /\ pc \in {"Idle", "Closed"}
    /\ calls.did_open = 1
    /\ NextSelect
    /\ UNCHANGED <<stdin, stdout, next_request_id, pending_requests, chan,
                   rx, tx_alive, responses, generation, buffer_generation,
                   editor_pc, child_alive, srv, written, owed, all_good,
                   out_of_order, handled, issued, sent, errors,
                   warnings, calls>>
    /\ UNCHANGED <<arg, out>>

\* the embedding program starts the loop once it has opened its document
Run ==
    /\ pc = "Idle"
    /\ calls.did_open = 1
    /\ NextSelect
    /\ UNCHANGED <<stdin, stdout, next_request_id, pending_requests, chan,
                   rx, tx_alive, responses, generation, buffer_generation,
                   editor_pc, child_alive, srv, written, owed, all_good,
                   out_of_order, handled, issued, sent, errors,
                   warnings, calls>>
    /\ UNCHANGED <<arg, out>>

\* lines 203-207 with handle_client_message (lines 241-257): a DidChange is
\* handled to its end, a Completion up to the recv().await of line 184
SelectRecv ==
    /\ pc = "Select"
    /\ ~recv_off
    /\ rx # <<>>
    /\ rx' = Tail(rx)
    /\ handled' = Append(handled, Head(rx).kind)
    /\ LET msg == Head(rx)
           r == IF msg.kind = "DidChange"
                THEN did_change(Self, msg.uri, msg.text, msg.version)
                ELSE completion_request(Self, msg.uri, msg.position)
       IN  /\ Apply(r.self)
           /\ errors' = IF r.ok THEN errors ELSE [errors EXCEPT !.client = @ + 1]
           /\ IF msg.kind = "Completion" /\ r.ok
              THEN /\ pc' = "Completion"
                   /\ await_rx' = r.rx
                   /\ UNCHANGED <<recv_off, read_off, rd>>
              ELSE NextSelect
    /\ UNCHANGED <<stdout, tx_alive, responses, generation,
                   buffer_generation, editor_pc, child_alive, srv, written,
                   owed, all_good, out_of_order, calls>>
    /\ UNCHANGED <<arg, out>>

\* rx.recv() gives None: the queue is empty and every Sender is gone
SelectRecvNone ==
    /\ pc = "Select"
    /\ ~recv_off
    /\ rx = <<>>
    /\ ~tx_alive
    /\ recv_off' = TRUE
    /\ UNCHANGED <<stdin, stdout, next_request_id, pending_requests, chan,
                   pc, read_off, rd, await_rx, rx, tx_alive, responses,
                   generation, buffer_generation, editor_pc, child_alive,
                   srv, written, owed, all_good, out_of_order,
                   handled, issued, sent, errors, warnings, calls>>
    /\ UNCHANGED <<arg, out>>

\* the read results that are transport or framing failures
Failures == {"io", "no_length", "parse_int", "unexpected_eof"}

\* lines 208-212: a poll of the read_message future that takes bytes or
\* completes, and handle_server_message when it gives a message
SelectRead ==
    /\ pc = "Select"
    /\ read_off = "-"
    /\ LET p == read_message(rd, stdout, ~child_alive)
       IN  /\ p.used > 0 \/ p.res.st # "Pending"
           /\ stdout' = SubSeq(stdout, p.used + 1, Len(stdout))
           /\ CASE p.res.st = "Pending" ->
                     /\ rd' = p.rd
                     /\ UNCHANGED <<stdin, next_request_id, pending_requests, chan,
                                    pc, recv_off, read_off, await_rx, owed,
                                    out_of_order, issued, sent,
                                    errors, warnings>>
                [] p.res.st = "Ok" /\ p.res.msg # <<>> ->
                     LET message == p.res.msg[1]
                         r == handle_server_message(Self, message)
                         due == owed # <<>> /\ Head(owed) = message
                     IN  /\ Apply(r.self)
                         /\ owed' = IF due THEN Tail(owed) ELSE owed
                         /\ out_of_order' = (out_of_order \/ ~due)
                         /\ errors' = IF r.ok THEN errors
                                      ELSE [errors EXCEPT !.server = @ + 1]
                         /\ NextSelect
                [] OTHER ->
                     /\ read_off' = p.res.why
                     /\ UNCHANGED <<stdin, next_request_id, pending_requests, chan,
                                    pc, recv_off, rd, await_rx, owed, out_of_order, issued, sent, errors, warnings>>
    /\ UNCHANGED <<rx, tx_alive, responses, generation, buffer_generation,
                   editor_pc, child_alive, srv, written, all_good, handled, calls>>
    /\ UNCHANGED <<arg, out>>

\* lines 213-216: both branches are disabled; run returns
SelectElse ==
    /\ pc = "Select"
    /\ recv_off
    /\ read_off # "-"
    /\ pc' = "Closed"
    /\ UNCHANGED <<stdin, stdout, next_request_id, pending_requests, chan,
                   recv_off, read_off, rd, await_rx, rx, tx_alive,
                   responses, generation, buffer_generation, editor_pc,
                   child_alive, srv, written, owed, all_good, out_of_order, handled, issued, sent, errors, warnings, calls>>
    /\ UNCHANGED <<arg, out>>

\* response_rx.recv().await returns on channel c: Some(value) when one is
\* buffered, None when the channel is empty and its Sender is gone.  The
\* detached initialize task (lines 129-133) then ends; the completion call
\* goes on with lines 184-193 and handle_client_message with lines 251-253.
Recv(c) ==
    /\ chan[c].rx \in {"task", "completion"}
    /\ chan[c].buf # <<>> \/ ~SenderAlive(pending_requests, c)
    /\ LET value == IF chan[c].buf # <<>> THEN <<Head(chan[c].buf)>> ELSE <<>>
       IN  /\ chan' = [chan EXCEPT ![c].buf = <<>>, ![c].rx = "dropped",
                                   ![c].got = Append(@, value)]
           /\ IF chan[c].rx = "completion"
              THEN /\ NextSelect
                   /\ LET r == respond(responses, "Completion", value)
                      IN  /\ responses' = r.responses
                          /\ errors' = IF r.ok THEN errors
                                       ELSE [errors EXCEPT !.client = @ + 1]
              ELSE UNCHANGED <<pc, recv_off, read_off, rd, await_rx, responses, errors>>
    /\ UNCHANGED <<stdin, stdout, next_request_id, pending_requests, rx,
                   tx_alive, generation, buffer_generation, editor_pc,
                   child_alive, srv, written, owed, all_good, out_of_order, handled, issued, sent, warnings,
                   calls>>
    /\ UNCHANGED <<arg, out>>

(***************************************************************************)
(* The specification.                                                      *)
(***************************************************************************)
Start ==
    /\ stdin = <<>>
    /\ stdout = <<>>
    /\ next_request_id = 1
    /\ pending_requests = EmptyMap
    /\ chan = <<>>
    /\ pc = "Idle"
    /\ recv_off = FALSE
    /\ read_off = "-"
    /\ rd = NewRead
    /\ await_rx = 0
    /\ rx = <<>>
    /\ tx_alive = TRUE
    /\ responses = <<>>
    /\ generation = 0
    /\ buffer_generation = 0
    /\ editor_pc = "ready"
    /\ child_alive = TRUE
    /\ srv = NoFrame
    /\ written = 0
    /\ owed = <<>>
    /\ all_good = TRUE
    /\ out_of_order = FALSE
    /\ handled = <<>>
    /\ issued = <<>>
    /\ sent = <<>>
    /\ errors = [client |-> 0, server |-> 0]
    /\ warnings = 0
    /\ calls = [initialize |-> 0, did_open |-> 0]

NoArg == [fn |-> "none"]

Init == Start /\ arg = NoArg /\ out = <<>>

Next ==
    \/ Initialize
    \/ DidOpen
    \/ Run
    \/ SelectRecv
    \/ SelectRecvNone
    \/ SelectRead
    \/ SelectElse
    \/ \E c \in 1..Len(chan) : Recv(c)
    \/ Edit
    \/ Draw
    \/ SendChange
    \/ SendCompletion
    \/ EditorExit
    \/ \E f \in FrameKinds : \E cut \in CutTable[f] : ServerWrite(f, cut)
    \/ ServerWriteRest
    \/ ServerExit

Spec == Init /\ [][Next]_vars

(***************************************************************************)
(* The client with a language server that never writes: it stays silent or *)
(* exits.  No reply arrives, so no recv().await on a reply channel         *)
(* returns.  The user goes on editing.                                     *)
(***************************************************************************)
EditSilent == EditUpTo(MaxSilentEdits)

SilentNext ==
    \/ Initialize
    \/ DidOpen
    \/ Run
    \/ SelectRecv
    \/ SelectRecvNone
    \/ SelectRead
    \/ SelectElse
    \/ EditSilent
    \/ Draw
    \/ SendChange
    \/ SendCompletion
    \/ EditorExit
    \/ ServerExit

SilentSpec == Init /\ [][SilentNext]_vars

\* the editor with a document that has a path or has none, and a server
\* that never writes
EditorInit ==
    /\ Start
    /\ arg \in {[fn |-> "editor", path |-> b] : b \in BOOLEAN}
    /\ out = <<>>

EditorNext ==
    \/ Initialize
    \/ DidOpen
    \/ Run
    \/ SelectRecv
    \/ SelectRecvNone
    \/ SelectRead
    \/ SelectElse
    \/ EditSilent
    \/ Draw
    \/ DrawNoPath
    \/ SendChange
    \/ SendCompletion
    \/ EditorExit
    \/ ServerExit

EditorSpec == EditorInit /\ [][EditorNext]_vars

\* the frames of a server that notifies, and answers the first request
NotifyFrames == NotificationKinds \cup {[kind |-> "response", id |-> 1]}

\* the client with that server, which writes each frame in one piece
NotifyNext ==
    \/ Initialize
    \/ DidOpen
    \/ Run
    \/ SelectRecv
    \/ SelectRecvNone
    \/ SelectRead
    \/ SelectElse
    \/ \E c \in 1..Len(chan) : Recv(c)
    \/ Edit
    \/ Draw
    \/ SendChange
    \/ SendCompletion
    \/ EditorExit
    \/ \E f \in NotifyFrames : ServerWrite(f, Len(FrameBytes(f)))
    \/ ServerExit

NotifySpec == Init /\ [][NotifyNext]_vars

(***************************************************************************)
(* The functions of the client taken alone: the input arg is drawn from a  *)
(* bounded set, the client is as new() leaves it, and one step applies the *)
(* function and keeps what it gave in out.                                 *)
(***************************************************************************)
client_vars == <<stdin, stdout, next_request_id, pending_requests, chan, pc,
                 recv_off, read_off, rd, await_rx, rx, tx_alive, responses,
                 generation, buffer_generation, editor_pc, child_alive, srv,
                 written, owed, all_good, out_of_order, handled, issued, sent,
                 errors, warnings, calls>>

\* what a field of a server message may be: absent, or one of some values
IdValues == {<<>>, <<Num(7)>>, <<Str(<<"a">>)>>}
ResultValues == {<<>>, <<Null>>, <<Num(1)>>}
MethodValues == {<<>>, <<Str(<<"m">>)>>, <<Num(5)>>}
ParamsValues == {<<>>, <<Obj(<<>>)>>}

MemberIf(k, v) == IF v = <<>> THEN <<>> ELSE <<Member(k, v[1])>>

\* the message object with these fields, as a server writes it
MessageObject(id, result, method, params) ==
    Obj(MemberIf(K_jsonrpc, <<Str(V_2_0)>>) \o MemberIf(K_id, id)
        \o MemberIf(K_method, method) \o MemberIf(K_params, params)
        \o MemberIf(K_result, result))

ClassifyArgs ==
    {[fn |-> "classify", v |-> MessageObject(id, result, method, params)] :
        id \in IdValues, result \in ResultValues,
        method \in MethodValues, params \in ParamsValues}

\* lines 294-297 on the body of a frame: the text is parsed and classified
Classify ==
    /\ arg.fn = "classify"
    /\ out = <<>>
    /\ out' = <<Decode(to_string(arg.v))>>
    /\ UNCHANGED <<client_vars, arg>>

\* a stream that holds the first n bytes of a frame and is closed after them
ClosedStreamArgs ==
    UNION {{[fn |-> "read_closed", bytes |-> FrameTable[f], n |-> n] :
                n \in 0..Len(FrameTable[f])} :
           f \in {g \in FrameKinds : g.kind = "log" \/ g.id = 1}}

\* lines 273-301 on a stream the server has closed: a new read_message is
\* polled, and every read on the stream completes
ReadClosed ==
    /\ arg.fn = "read_closed"
    /\ out = <<>>
    /\ out' = <<read_message(NewRead, SubSeq(arg.bytes, 1, arg.n), TRUE)>>
    /\ UNCHANGED <<client_vars, arg>>

\* values a message carries as its result or its params: nested, empty,
\* with the characters that to_string escapes, and long enough for a
\* Content-Length of three digits
CarriedValues ==
    {Null, Bool(TRUE), Num(0), Arr(<<>>), Obj(<<>>), ResultFor(1),
     Str(<<QUOTE, "a", BACKSLASH, LF, "}", CR, LF, CR, LF>>),
     DidChangeParams(Uri, <<"{", LF, "}">>, 1),
     Obj(<<Member(K_items, Arr(<<Num(10), Arr(<<Null>>)>>)),
           Member(<<"k", QUOTE>>, Obj(<<Member(K_id, Bool(FALSE))>>))>>)}

\* messages of the two shapes read_message yields
RoundTripMessages ==
    {Obj(<<Member(K_id, Num(id)), Member(K_jsonrpc, Str(V_2_0)),
           Member(K_result, v)>>) : id \in {0, 1, 10}, v \in CarriedValues}
    \cup {NotificationJson(m, v) : m \in {M_logMessage, M_didChange, <<>>},
                                   v \in CarriedValues}

\* what follows the frame on the stream: nothing, a whole frame, the start
\* of a frame
FollowingBytes ==
    {<<>>, FrameTable[[kind |-> "log", id |-> 0]], <<"C", "o", "n", "t">>}

RoundTripArgs ==
    {[fn |-> "round_trip", v |-> v, next |-> next] :
        v \in RoundTripMessages, next \in FollowingBytes}

\* lines 73-82, then lines 273-301 on what was written and what follows
\* it, then lines 273-301 again on what the first call left on the stream
RoundTrip ==
    /\ arg.fn = "round_trip"
    /\ out = <<>>
    /\ LET frame == send_message([Self EXCEPT !.stdin = <<>>], arg.v).self.stdin
           stream == frame \o arg.next
           first == read_message(NewRead, stream, FALSE)
           second == read_message(NewRead,
                                  SubSeq(stream, first.used + 1, Len(stream)), FALSE)
       IN  out' = <<[frame |-> frame, first |-> first, second |-> second]>>
    /\ UNCHANGED <<client_vars, arg>>

\* the lists of items a reply may carry, by their labels
ItemLabels == {<<>>, <<<<"a">>>>, <<<<"a">>, <<"b">>>>, <<<<"b">>, <<"a">>>>,
               <<<<"a">>, <<"a">>, <<QUOTE>>>>}

ItemsJson(labels) ==
    Arr([i \in 1..Len(labels) |->
            Obj(<<Member(<<"k", "i", "n", "d">>, Num(i)),
                  Member(K_label, Str(labels[i]))>>)])

\* CompletionList as a server writes it
ListJson(flag, labels) ==
    Obj(<<Member(K_isIncomplete, Bool(flag)), Member(K_items, ItemsJson(labels))>>)

\* replies that are neither an array of items nor a CompletionList
NeitherShape ==
    {Null, Num(1), Str(<<"a">>), Obj(<<>>),
     Obj(<<Member(K_items, ItemsJson(<<<<"a">>>>))>>),
     Obj(<<Member(K_isIncomplete, Bool(TRUE))>>),
     Obj(<<Member(K_isIncomplete, Num(0)), Member(K_items, ItemsJson(<<<<"a">>>>))>>),
     Obj(<<Member(K_isIncomplete, Bool(FALSE)), Member(K_items, Null)>>),
     Arr(<<Num(1)>>),
     Arr(<<Obj(<<Member(K_label, Num(1))>>)>>),
     Obj(<<Member(K_isIncomplete, Bool(TRUE)), Member(K_items, Arr(<<Obj(<<>>)>>))>>)}

CompletionArgs ==
    {[fn |-> "completion", shape |-> "array", flag |-> FALSE, labels |-> l,
      v |-> ItemsJson(l)] : l \in ItemLabels}
    \cup {[fn |-> "completion", shape |-> "list", flag |-> b, labels |-> l,
           v |-> ListJson(b, l)] : b \in BOOLEAN, l \in ItemLabels}
    \cup {[fn |-> "completion", shape |-> "neither", flag |-> FALSE, labels |-> <<>>,
           v |-> v] : v \in NeitherShape}

\* lines 184-190 and 250-253 on a reply, nothing delivered before
Complete ==
    /\ arg.fn = "completion"
    /\ out = <<>>
    /\ out' = <<deliver_completion(<<>>, arg.v)>>
    /\ UNCHANGED <<client_vars, arg>>

\* the body of the frames whose header block varies, and what follows it
ShortBody == to_string(Obj(<<Member(K_id, Num(1)), Member(K_result, Null)>>))
AfterBody == <<"X", "Y">>

\* header lines: a key, a separator and a number
HeaderKeys == {CONTENT_LENGTH,
               <<"c", "o", "n", "t", "e", "n", "t", "-", "l", "e", "n", "g", "t", "h">>,
               <<"C", "o", "n", "t", "e", "n", "t", "-", "T", "y", "p", "e">>}
HeaderSeparators == {<<":", " ">>, <<":">>}
HeaderLines == [key : HeaderKeys, sep : HeaderSeparators, n : {1, Len(ShortBody)}]

LineBytes(l) == l.key \o l.sep \o DigitsOf(l.n) \o <<CR, LF>>

RECURSIVE BlockBytes(_)
BlockBytes(lines) ==
    IF lines = <<>> THEN <<>> ELSE LineBytes(lines[1]) \o BlockBytes(Tail(lines))

\* header blocks of one or two lines
HeaderBlockArgs ==
    {[fn |-> "read_headers", lines |-> <<l>>] : l \in HeaderLines}
    \cup {[fn |-> "read_headers", lines |-> <<l, m>>] : l \in HeaderLines, m \in HeaderLines}

\* lines 273-301 on a stream that holds the header block, the blank line,
\* the body and the bytes after it
ReadHeaders ==
    /\ arg.fn = "read_headers"
    /\ out = <<>>
    /\ out' = <<read_message(NewRead,
                             BlockBytes(arg.lines) \o <<CR, LF>> \o ShortBody \o AfterBody,
                             FALSE)>>
    /\ UNCHANGED <<client_vars, arg>>

(***************************************************************************)
(* path.rs on Unix: a path is its text, a sequence of characters, and the  *)
(* separator is "/".                                                       *)
(***************************************************************************)
MAIN_SEPARATOR == "/"

PathComponent(kind, name) == [kind |-> kind, name |-> name]

\* Path::components of the text from index i on, the root already taken:
\* separators that repeat and "." are skipped
RECURSIVE ComponentsFrom(_, _)
ComponentsFrom(path, i) ==
    IF i > Len(path) THEN <<>>
    ELSE IF path[i] = MAIN_SEPARATOR THEN ComponentsFrom(path, i + 1)
    ELSE LET sep == IndexFrom(path, MAIN_SEPARATOR, i)
             e == IF sep = 0 THEN Len(path) + 1 ELSE sep
             name == SubSeq(path, i, e - 1)
         IN  IF name = <<".">> THEN ComponentsFrom(path, e)
             ELSE <<PathComponent(IF name = <<".", ".">> THEN "ParentDir" ELSE "Normal",
                                  name)>>
                  \o ComponentsFrom(path, e)

\* Path::components of an absolute path
Components(path) ==
    <<PathComponent("RootDir", <<MAIN_SEPARATOR>>)>> \o ComponentsFrom(path, 2)

\* PathBuf::push: an absolute path replaces the buffer, any other is
\* appended after a separator, which is added unless the buffer ends in one
PathPush(res, p) ==
    IF p # <<>> /\ p[1] = MAIN_SEPARATOR THEN p
    ELSE IF res = <<>> \/ res[Len(res)] = MAIN_SEPARATOR THEN res \o p
    ELSE res \o <<MAIN_SEPARATOR>> \o p

\* the index of the last separator of the text, 0 when it has none
RECURSIVE LastSeparator(_, _)
LastSeparator(res, i) ==
    IF i = 0 THEN 0
    ELSE IF res[i] = MAIN_SEPARATOR THEN i
    ELSE LastSeparator(res, i - 1)

\* Path::parent of a buffer that normalize has built: None for the root and
\* for the empty path, else the path without its last component
PathParent(res) ==
    LET at == LastSeparator(res, Len(res))
    IN  IF res = <<>> \/ res = <<MAIN_SEPARATOR>> THEN <<>>
        ELSE IF at <= 1 THEN <<SubSeq(res, 1, at)>>
        ELSE <<SubSeq(res, 1, at - 1)>>

\* a ".." that removes nothing
ParentDirKept(res, root_len) == res

\* lines 23-39: the arm of Component::ParentDir
ParentDir(res, root_len) ==
    LET parent == PathParent(res)
    IN  IF parent # <<>> /\ Len(parent[1]) >= root_len
        THEN SubSeq(res, 1, Len(parent[1]))
        ELSE res

\* lines 15-42: the loop over the components from index i on
RECURSIVE NormalizeFrom(_, _, _, _)
NormalizeFrom(components, i, res, root_len) ==
    IF i > Len(components) THEN res
    ELSE LET component == components[i]
         IN  CASE component.kind = "RootDir" ->
                    LET r == PathPush(res, <<MAIN_SEPARATOR>>)
                    IN  NormalizeFrom(components, i + 1, r, Len(r))
               [] component.kind = "ParentDir" ->
                    NormalizeFrom(components, i + 1, ParentDir(res, root_len), root_len)
               [] component.kind = "Normal" ->
                    NormalizeFrom(components, i + 1, PathPush(res, component.name),
                                  root_len)

\* lines 11-45
normalize(path) == NormalizeFrom(Components(path), 1, <<>>, 0)

\* the text of an absolute path from what stands between its separators
RECURSIVE JoinSegments(_)
JoinSegments(segs) ==
    IF segs = <<>> THEN <<>>
    ELSE segs[1] \o (IF Len(segs) > 1 THEN <<MAIN_SEPARATOR>> ELSE <<>>)
         \o JoinSegments(Tail(segs))

PathOf(segs) == <<MAIN_SEPARATOR>> \o JoinSegments(segs)

\* what may stand between two separators
Segments == {<<>>, <<".">>, <<".", ".">>, <<"a">>, <<"b">>, <<".", ".", "a">>}

MaxSegments == 4

\* the paths of test_unix (lines 77-85), by their segments
TestedPaths ==
    {<<<<"a">>, <<"b">>, <<"c">>>>,
     <<<<"a">>, <<"b">>, <<"c">>, <<>>>>,
     <<<<".", ".">>, <<".", ".">>, <<"a">>>>,
     <<<<"a">>, <<"b">>, <<"c">>, <<".", ".">>, <<".", ".">>, <<".", ".">>,
       <<".", ".">>, <<"d">>>>}

NormalizeArgs ==
    {[fn |-> "normalize", segs |-> segs] :
        segs \in TestedPaths \cup UNION {[1..n -> Segments] : n \in 0..MaxSegments}}

\* lines 11-45 on the text of the path
Normalize ==
    /\ arg.fn = "normalize"
    /\ out = <<>>
    /\ out' = <<normalize(PathOf(arg.segs))>>
    /\ UNCHANGED <<client_vars, arg>>

CARGO_TOML == <<"C", "a", "r", "g", "o", ".", "t", "o", "m", "l">>

\* A file system fs, as far as find_project_root looks at it, is the paths
\* that are regular files and the paths that are directories.
\* a test that a directory passes as well
path_exists(fs, path) == path \in fs.files \cup fs.dirs

\* Path::is_file
is_file(fs, path) == path \in fs.files

\* lines 51-58: the loop, steps counting its iterations.  PathBuf::pop
\* truncates to the parent and gives false when there is none.
RECURSIVE FindFrom(_, _, _)
FindFrom(fs, current_path, steps) ==
    IF is_file(fs, PathPush(current_path, CARGO_TOML))
    THEN [found |-> <<current_path>>, steps |-> steps]
    ELSE IF PathParent(current_path) = <<>>
         THEN [found |-> <<>>, steps |-> steps]
         ELSE FindFrom(fs, PathParent(current_path)[1], steps + 1)

\* lines 49-59
find_project_root(fs, start_path) == FindFrom(fs, start_path, 1)

\* the text of the directory of these names, under the root or relative
DirOf(absolute, names) ==
    (IF absolute THEN <<MAIN_SEPARATOR>> ELSE <<>>) \o JoinSegments(names)

MaxDepth == 2

\* the directories a search may start in
StartNames == UNION {[1..n -> {<<"a">>, <<"b">>}] : n \in 0..MaxDepth}

\* in the start directory and in each of its ancestors Cargo.toml is
\* missing, a regular file or a directory; a directory beside them always
\* holds one
FindArgs ==
    UNION {{[fn |-> "find", absolute |-> absolute, names |-> names, kinds |-> kinds] :
                kinds \in [0..Len(names) -> {"none", "file", "dir"}]} :
           <<absolute, names>> \in BOOLEAN \X StartNames}

FsOf(a) ==
    LET entry(k) == PathPush(DirOf(a.absolute, SubSeq(a.names, 1, k)), CARGO_TOML)
    IN  [files |-> {entry(k) : k \in {j \in 0..Len(a.names) : a.kinds[j] = "file"}}
                   \cup {PathPush(DirOf(a.absolute, <<<<"c">>>>), CARGO_TOML)},
         dirs |-> {entry(k) : k \in {j \in 0..Len(a.names) : a.kinds[j] = "dir"}}]

\* lines 49-59 on a start directory and a file system
Find ==
    /\ arg.fn = "find"
    /\ out = <<>>
    /\ out' = <<find_project_root(FsOf(arg), DirOf(arg.absolute, arg.names))>>
    /\ UNCHANGED <<client_vars, arg>>

\* the editor's response queue before a message is handled: empty, or
\* holding an earlier CompletionResult
Delivered == {<<>>, <<<<<<"z">>>>>>}

\* an intent with what recv() gives its completion call, or a message of
\* the server
HandleArgs ==
    {[fn |-> "handle", kind |-> "DidChange", reply |-> <<>>, server |-> <<>>,
      delivered |-> d] : d \in Delivered}
    \cup {[fn |-> "handle", kind |-> "Completion", reply |-> r, server |-> <<>>,
           delivered |-> d] :
             r \in {<<>>} \cup {<<a.v>> : a \in CompletionArgs}, d \in Delivered}
    \cup {[fn |-> "handle", kind |-> "Server", reply |-> <<>>,
           server |-> FrameMessage(f), delivered |-> d] :
             f \in NotifyFrames, d \in Delivered}

\* lines 241-257 from the reply on, or lines 221-239, on the response queue:
\* handle_server_message does not use its _response_tx
Handle ==
    /\ arg.fn = "handle"
    /\ out = <<>>
    /\ out' = IF arg.kind = "Server"
              THEN <<[responses |-> arg.delivered,
                      ok |-> handle_server_message(Self, arg.server[1]).ok]>>
              ELSE <<respond(arg.delivered, arg.kind, arg.reply)>>
    /\ UNCHANGED <<client_vars, arg>>

PureArgs == ClassifyArgs \cup ClosedStreamArgs \cup RoundTripArgs \cup CompletionArgs
            \cup HeaderBlockArgs \cup NormalizeArgs \cup FindArgs \cup HandleArgs

PureInit == Start /\ arg \in PureArgs /\ out = <<>>

PureNext ==
    \/ Classify
    \/ ReadClosed
    \/ RoundTrip
    \/ Complete
    \/ ReadHeaders
    \/ Normalize
    \/ Find
    \/ Handle

PureSpec == PureInit /\ [][PureNext]_vars

(***************************************************************************)
(* The properties of the client.                                           *)
(***************************************************************************)
\* a step of run itself: a branch of its select!, or the return of the
\* recv().await that its completion call waits in (line 184)
RunStep ==
    \/ SelectRecv
    \/ SelectRecvNone
    \/ SelectRead
    \/ SelectElse
    \/ pc = "Completion" /\ Recv(await_rx)

\* C1: once run has returned (the loop is Closed) the pending-request map is
\* empty: every caller that was waiting has been released with a failure,
\* so none stays suspended.
C1_ClosedIsDrained == pc = "Closed" => DOMAIN pending_requests = {}

\* run waits in its completion call, and the Response that carries the id of
\* that request lies complete in the pipe
ReplyWritten ==
    /\ pc = "Completion"
    /\ srv = NoFrame
    /\ \E id \in DOMAIN pending_requests \cap ResponseIds :
          /\ pending_requests[id] = await_rx
          /\ stdout = FrameBytes([kind |-> "response", id |-> id])

\* C2: while a completion request awaits its reply the loop keeps decoding
\* server messages: when the Response with the request's id has been
\* written, run can take a step (read it, resolve the entry, deliver the
\* result).
C2_ReplyIsRead == ReplyWritten => ENABLED RunStep

\* C3: once read_message has reported end-of-stream, run goes on to Closed
\* by itself: it has a step to take even when the intent queue is open and
\* empty.
C3_EofCloses == (pc = "Select" /\ read_off = "eof") => ENABLED RunStep

\* C4: after a transport or framing failure of read_message no further
\* client intent is dispatched: the loop only goes to Closed.
C4_FailureStopsDispatch ==
    [][(pc = "Select" /\ read_off \in Failures) => handled' = handled]_vars

\* C5: a decode failure is not fatal: the loop never closes on a select!
\* whose read ended in a decode failure, whether or not the intent queue
\* is open.
C5_DecodeFailureKeepsRunning == ~(pc = "Closed" /\ read_off = "json")

\* C6: for every identifier that is a key of the pending-request map,
\* exactly one request with that identifier has been written to the
\* transport.
C6_PendingWasWritten ==
    \A id \in DOMAIN pending_requests :
        Cardinality({i \in 1..Len(sent) : sent[i].id = id}) = 1

\* C7: request identifiers start at 1 and are strictly increasing, hence
\* pairwise distinct; every request written carries an identifier that was
\* allocated, a notification (didOpen, didChange) carries none, and the
\* counter has advanced by the number of requests only.
C7_Identifiers ==
    /\ issued # <<>> => issued[1] = 1
    /\ \A i, j \in 1..Len(issued) : i < j => issued[i] < issued[j]
    /\ next_request_id = 1 + Len(issued)
    /\ \A i \in 1..Len(sent) :
          IF sent[i].method \in {M_didOpen, M_didChange}
          THEN sent[i].id = 0
          ELSE \E j \in 1..Len(issued) : sent[i].id = issued[j]

\* three requests of both kinds have been issued, and both notifications sent
C7_MixedRequests ==
    /\ Len(issued) = 3
    /\ \E i, j, k, l \in 1..Len(sent) :
          /\ sent[i].method = M_initialize
          /\ sent[j].method = M_completion
          /\ sent[k].method = M_didOpen
          /\ sent[l].method = M_didChange

\* C8: each result is delivered on the channel registered for the matching
\* identifier and on no other, and each caller receives at most one result.
\* (The server's result for an identifier names that identifier, and
\* channel c is the one the c-th request registered.)
C8_Routing ==
    \A c \in 1..Len(chan) :
        /\ Len(chan[c].buf)
             + Cardinality({i \in 1..Len(chan[c].got) : chan[c].got[i] # <<>>}) <= 1
        /\ \A i \in 1..Len(chan[c].buf) : chan[c].buf[i] = ResultFor(issued[c])
        /\ \A i \in 1..Len(chan[c].got) :
              chan[c].got[i] # <<>> => chan[c].got[i][1] = ResultFor(issued[c])

\* two requests were outstanding and the Response to the second came first:
\* its caller has received the result while the first is still pending
C8_PermutedOrder ==
    /\ Len(chan) >= 2
    /\ issued[1] \in DOMAIN pending_requests
    /\ chan[2].got = <<<<ResultFor(issued[2])>>>>

\* the result of a read_message poll is a Response whose id is not a key of
\* the pending-request map
UnknownResponse(p) ==
    /\ p.res.st = "Ok"
    /\ p.res.msg # <<>>
    /\ p.res.msg[1].kind = "Response"
    /\ p.res.msg[1].id \notin DOMAIN pending_requests

\* C9: the step of run that reads a Response whose id has no entry in the
\* pending-request map logs no error, leaves the map and the identifier
\* counter unchanged, delivers nothing to any caller and leaves the loop
\* Running.
C9_UnknownIdDiscarded ==
    [][(/\ pc = "Select"
        /\ read_off = "-"
        /\ UnknownResponse(read_message(rd, stdout, ~child_alive))
        /\ Len(stdout') < Len(stdout))
       => (/\ pending_requests' = pending_requests
           /\ next_request_id' = next_request_id
           /\ chan' = chan
           /\ errors' = errors
           /\ pc' = "Select")]_vars

\* an unknown id has been discarded while another request is pending
C9_DiscardedWhilePending ==
    /\ warnings > 0
    /\ pc = "Select"
    /\ DOMAIN pending_requests # {}

\* C10: every frame the server writes is dispatched exactly once and in the
\* order written: when every frame it wrote carries a message and all their
\* bytes have been read, no message is left undispatched and none was
\* dispatched out of turn.
C10_EveryFrameDispatched ==
    (all_good /\ srv = NoFrame /\ stdout = <<>>) => (owed = <<>> /\ ~out_of_order)

\* the method of the message that the loop writes for an intent
IntentMethod(kind) == IF kind = "DidChange" THEN M_didChange ELSE M_completion

\* the messages written for intents, in the order written
IntentsSent == SelectSeq(sent, LAMBDA m : m.method \in {M_didChange, M_completion})

\* C11: outbound messages reach the child in the order the client issued
\* them: the messages written for intents follow the order in which the
\* intents were dispatched, and while the child lives there is exactly one
\* per intent; the message for a DidChange is a notification with no id,
\* the one for a Completion a request whose id no other message carries.
C11_OutboundOrder ==
    /\ Len(IntentsSent) <= Len(handled)
    /\ \A i \in 1..Len(IntentsSent) :
          \E j \in i..Len(handled) : IntentsSent[i].method = IntentMethod(handled[j])
    /\ child_alive =>
          [i \in 1..Len(IntentsSent) |-> IntentsSent[i].method]
             = [i \in 1..Len(handled) |-> IntentMethod(handled[i])]
    /\ \A i \in 1..Len(sent) :
          /\ sent[i].method = M_didChange => sent[i].id = 0
          /\ sent[i].method = M_completion =>
                /\ sent[i].id # 0
                /\ \A j \in 1..Len(sent) : j # i => sent[j].id # sent[i].id

\* a DidChange and then a Completion were dispatched after an initialize
\* request and didOpen, and exactly those two messages followed on the
\* transport
C11_TwoFrames ==
    /\ handled = <<"DidChange", "Completion">>
    /\ Len(sent) >= 4
    /\ sent[Len(sent) - 3].method = M_initialize
    /\ sent[Len(sent) - 2].method = M_didOpen
    /\ sent[Len(sent) - 1] = [id |-> 0, method |-> M_didChange, version |-> 1]
    /\ sent[Len(sent)].method = M_completion
    /\ sent[Len(sent)].id = 1 + sent[Len(sent) - 3].id

\* C12: the editor is never blocked by the protocol client: whenever
\* draw_highlighted_editor is in one of its sends on the intent queue, the
\* send can complete, or run can take a step (and so go on draining the
\* queue), also when the server never replies or has exited.
C12_SendCompletes ==
    editor_pc \in {"send_change", "send_completion"} =>
        (ENABLED SendChange \/ ENABLED SendCompletion \/ ENABLED RunStep)

\* the result of a read_message poll is a Response whose id is the key of a
\* channel that a detached initialize task waits on
InitializeReply(p) ==
    /\ p.res.st = "Ok"
    /\ p.res.msg # <<>>
    /\ p.res.msg[1].kind = "Response"
    /\ p.res.msg[1].id \in DOMAIN pending_requests
    /\ chan[pending_requests[p.res.msg[1].id]].rx = "task"

\* a detached initialize task holds the Receiver of channel c only: the
\* request was written, and either no reply has come, and the Sender is in
\* the map under the request's id, or the reply is in the channel, the id
\* has left the map and the task can complete
TaskWaits(c) ==
    /\ \E i \in 1..Len(sent) :
          sent[i] = [id |-> issued[c], method |-> M_initialize, version |-> 0]
    /\ Len(chan[c].buf) <= 1
    /\ chan[c].buf = <<>> =>
          /\ issued[c] \in DOMAIN pending_requests
          /\ pending_requests[issued[c]] = c
    /\ chan[c].buf # <<>> =>
          /\ issued[c] \notin DOMAIN pending_requests
          /\ ENABLED Recv(c)

\* C13: initialize returns as soon as its request is written, without
\* waiting for the reply (the call is one step that leaves the loop not yet
\* started and the request pending, its Receiver with a detached task);
\* the task holds only the receiving half; and the step of run that
\* processes a Response with the matching id takes the id out of the
\* pending-request map and hands the result to the task, which can then
\* complete.
C13_InitializeDetached ==
    /\ [](\A c \in 1..Len(chan) : chan[c].rx = "task" => TaskWaits(c))
    /\ [][(calls'.initialize > calls.initialize /\ child_alive) =>
             (/\ pc' = "Idle"
              /\ chan' = Append(chan, [buf |-> <<>>, rx |-> "task", got |-> <<>>])
              /\ pending_requests'[next_request_id] = Len(chan')
              /\ sent' = Append(sent, [id |-> next_request_id,
                                      method |-> M_initialize, version |-> 0]))]_vars
    /\ [][(/\ pc = "Select"
           /\ read_off = "-"
           /\ InitializeReply(read_message(rd, stdout, ~child_alive))
           /\ Len(stdout') < Len(stdout))
          => LET message == read_message(rd, stdout, ~child_alive).res.msg[1]
                 c == pending_requests[message.id]
             IN  /\ message.id \notin DOMAIN pending_requests'
                 /\ chan'[c] = [buf |-> <<message.result>>, rx |-> "task", got |-> <<>>]
                 /\ pc' = "Select"]_vars

\* a detached initialize task has received the reply to its request and
\* has completed, and the request's id is no longer in the map
C13_TaskCompleted ==
    \E c \in 1..Len(chan) :
        /\ chan[c] = [buf |-> <<>>, rx |-> "dropped", got |-> <<<<ResultFor(issued[c])>>>>]
        /\ issued[c] \notin DOMAIN pending_requests
        /\ \E i \in 1..Len(sent) : sent[i].id = issued[c] /\ sent[i].method = M_initialize

\* object v has a member with key k
HasField(v, k) == \E i \in 1..Len(v.o) : v.o[i].k = k

\* C14 as stated: server messages are classified by the fields present,
\* Response first: a message with both id and result is a Response, also
\* when it has method or params; one with method and params that is not a
\* Response is a Notification; one that fits neither is a decode failure.
C14_ByFieldsPresent ==
    (arg.fn = "classify" /\ out # <<>>) =>
        LET v == arg.v
            r == out[1]
            response == HasField(v, K_id) /\ HasField(v, K_result)
            notification == HasField(v, K_method) /\ HasField(v, K_params)
        IN  /\ response => (r.st = "Ok" /\ r.msg[1].kind = "Response")
            /\ (~response /\ notification) =>
                  (r.st = "Ok" /\ r.msg[1].kind = "Notification")
            /\ (~response /\ ~notification) => r.st = "Err"

\* C14 amended: a message object whose id is an unsigned integer and that
\* has a result is the Response of that id and result, also when it has
\* method or params; otherwise one whose method is a string and that has
\* params is the Notification of that method and params; any other is a
\* decode failure.
C14_ByShape ==
    (arg.fn = "classify" /\ out # <<>>) =>
        LET v == arg.v
            r == out[1]
            id == Field(v.o, K_id)
            result == Field(v.o, K_result)
            method == Field(v.o, K_method)
            params == Field(v.o, K_params)
            response == id # <<>> /\ id[1].t = "num" /\ result # <<>>
            notification == method # <<>> /\ method[1].t = "str" /\ params # <<>>
        IN  /\ response => r = OkSome(Response(id[1].n, result[1]))
            /\ (~response /\ notification) =>
                  r = OkSome(Notification(method[1].s, params[1]))
            /\ (~response /\ ~notification) => r = Err("json")

\* a message with all four fields has been classified, as a Response
C14_AllFieldsIsResponse ==
    /\ arg.fn = "classify"
    /\ \A k \in {K_id, K_result, K_method, K_params} : HasField(arg.v, k)
    /\ out = <<OkSome(Response(7, Null))>>

\* C15: the versions of the didChange notifications written for a document
\* increase: each is greater than the version of every notification written
\* for it before, the didOpen with its version 1 included.
C15_VersionsIncrease ==
    \A j \in 1..Len(sent) :
        sent[j].method = M_didChange =>
            \A i \in 1..(j - 1) :
                sent[i].method \in {M_didOpen, M_didChange} =>
                    sent[i].version < sent[j].version

\* C16: a stream closed at a message boundary is the end of the stream and
\* not an error; a stream closed after a part of a frame, inside the header
\* block or before the whole body, is a transport error; only a stream
\* closed at a boundary is reported as the end of the stream.
C16_CloseInsideFrameIsError ==
    (arg.fn = "read_closed" /\ out # <<>>) =>
        LET res == out[1].res
        IN  /\ arg.n = 0 => res = OkNone("eof")
            /\ (0 < arg.n /\ arg.n < Len(arg.bytes)) => res.st = "Err"
            /\ arg.n = Len(arg.bytes) => (res.st = "Ok" /\ res.msg # <<>>)

\* the message a value of one of the two shapes stands for
MessageOf(v) ==
    IF Field(v.o, K_result) # <<>>
    THEN Response(Field(v.o, K_id)[1].n, Field(v.o, K_result)[1])
    ELSE Notification(Field(v.o, K_method)[1].s, Field(v.o, K_params)[1])

\* C17: the frame send_message writes for a message is a header block of
\* the one line Content-Length, whose number is the length in bytes of what
\* follows the block, and read_message on a stream that starts with the
\* frame takes the bytes of the frame and no more, yields the message that
\* was written, and leaves the stream at the frame that follows: the next
\* read_message gives what it gives on the following bytes alone.
C17_RoundTrip ==
    (arg.fn = "round_trip" /\ out # <<>>) =>
        LET frame == out[1].frame
            first == out[1].first
            cr == IndexFrom(frame, CR, 1)
        IN  /\ cr > 17
            /\ SubSeq(frame, 1, 16) = CONTENT_LENGTH \o <<":", " ">>
            /\ SubSeq(frame, cr, cr + 3) = <<CR, LF, CR, LF>>
            /\ ParseUsize(SubSeq(frame, 17, cr - 1)) = <<Len(frame) - (cr + 3)>>
            /\ from_str(SubSeq(frame, cr + 4, Len(frame))) = <<arg.v>>
            /\ first.used = Len(frame)
            /\ first.res = OkSome(MessageOf(arg.v))
            /\ out[1].second = read_message(NewRead, arg.next, FALSE)

\* a Response whose result is a string with a quote, a backslash and line
\* terminators was written and read back, and so was the frame after it
C17_EscapedAndFollowed ==
    /\ arg.fn = "round_trip"
    /\ arg.next # <<>>
    /\ out # <<>>
    /\ out[1].first.res.st = "Ok"
    /\ out[1].first.res.msg[1].kind = "Response"
    /\ out[1].first.res.msg[1].result.t = "str"
    /\ LF \in {out[1].first.res.msg[1].result.s[i] :
                  i \in 1..Len(out[1].first.res.msg[1].result.s)}
    /\ out[1].second.res.st = "Ok"
    /\ out[1].second.res.msg # <<>>
    /\ out[1].second.res.msg[1].kind = "Notification"

\* the positions of run inside its loop
Running == {"Select", "Completion"}

\* C18: the loop is Idle, then Running, then Closed, and takes no other
\* transition: from Idle it goes to Running only, from Running to Closed
\* only, and Closed is never left; once it is Closed no intent is handled,
\* no byte of the server is read and no message of it processed, and
\* nothing is written to the child.
C18_Lifecycle ==
    /\ [](pc \in {"Idle", "Closed"} \cup Running)
    /\ [][(pc = "Idle" => pc' \in {"Idle"} \cup Running)
          /\ (pc \in Running => pc' \in Running \cup {"Closed"})
          /\ (pc = "Closed" => pc' = "Closed")]_vars
    /\ [][pc = "Closed" =>
             /\ handled' = handled
             /\ rx' = rx
             /\ responses' = responses
             /\ Len(stdout') >= Len(stdout)
             /\ SubSeq(stdout', 1, Len(stdout)) = stdout
             /\ Len(owed') >= Len(owed)
             /\ SubSeq(owed', 1, Len(owed)) = owed
             /\ pending_requests' = pending_requests
             /\ next_request_id' = next_request_id
             /\ warnings' = warnings
             /\ errors' = errors
             /\ stdin' = stdin
             /\ sent' = sent]_vars

\* run has returned with a request pending, and the frame of its Response,
\* which the server wrote since, is on the stream, unread
C18_ClosedWithTraffic ==
    /\ pc = "Closed"
    /\ DOMAIN pending_requests # {}
    /\ child_alive
    /\ \E f \in FrameKinds : /\ f.id \in DOMAIN pending_requests
                              /\ stdout = FrameBytes(f)

\* the read_message future of run gives a notification on this poll
NotificationRead ==
    /\ pc = "Select"
    /\ read_off = "-"
    /\ LET p == read_message(rd, stdout, ~child_alive)
       IN  /\ p.res.st = "Ok"
           /\ p.res.msg # <<>>
           /\ p.res.msg[1].kind = "Notification"

\* C19: the step of run that reads a notification and dispatches it, be it
\* a logMessage with well-formed params, one with malformed params, or a
\* notification of an unknown method, leaves the loop Running, at its
\* select!, and leaves the pending-request map, the identifier counter and
\* what was written to the child as they were.
C19_NotificationKeepsLoop ==
    [][(NotificationRead /\ Len(stdout') < Len(stdout)) =>
          /\ pc' = "Select"
          /\ read_off' = "-"
          /\ recv_off' = FALSE
          /\ pending_requests' = pending_requests
          /\ chan' = chan
          /\ next_request_id' = next_request_id
          /\ stdin' = stdin
          /\ sent' = sent]_vars

\* two notifications have been dispatched in the order written, one of them
\* a logMessage with malformed params whose error was logged; a request is
\* pending, and run is at its select!
C19_MalformedDispatched ==
    /\ pc = "Select"
    /\ errors.server = 1
    /\ written = 2
    /\ owed = <<>>
    /\ stdout = <<>>
    /\ ~out_of_order
    /\ DOMAIN pending_requests # {}
    /\ warnings = 0

\* C20: a reply that is an array of items and a reply that is an object
\* {isIncomplete, items} with the same items give the same completion,
\* these items in their order, whatever the flag is; a reply of neither
\* shape gives an error, and nothing is delivered to the editor.
C20_ShapesNormalized ==
    (arg.fn = "completion" /\ out # <<>>) =>
        /\ arg.shape \in {"array", "list"} =>
              out[1] = [responses |-> <<arg.labels>>, ok |-> TRUE]
        /\ arg.shape = "neither" => out[1] = [responses |-> <<>>, ok |-> FALSE]

\* a list of two different items with the flag set has been delivered
C20_IncompleteListDelivered ==
    /\ arg.fn = "completion"
    /\ arg.shape = "list"
    /\ arg.flag
    /\ Len(arg.labels) = 2
    /\ arg.labels[1] # arg.labels[2]
    /\ out = <<[responses |-> <<arg.labels>>, ok |-> TRUE]>>

\* the body of a frame: what follows the blank line of its header block
FrameBody(frame) == SubSeq(frame, IndexFrom(frame, CR, 1) + 4, Len(frame))

\* the stream cut into frames as a reader of the protocol cuts it: acc holds
\* the summaries of the messages of the frames read so far, and whole tells
\* whether the stream ended with the end of a frame
RECURSIVE FramesOf(_, _)
FramesOf(bytes, acc) ==
    IF bytes = <<>> THEN [frames |-> acc, whole |-> TRUE]
    ELSE LET p == read_message(NewRead, bytes, FALSE)
             v == from_str(FrameBody(SubSeq(bytes, 1, p.used)))
         IN  IF p.res.st = "Ok" /\ p.res.msg # <<>> /\ v # <<>>
             THEN FramesOf(SubSeq(bytes, p.used + 1, Len(bytes)),
                           Append(acc, Summary(v[1])))
             ELSE [frames |-> acc, whole |-> FALSE]

IsLengthLine(l) == l.key = CONTENT_LENGTH /\ l.sep = <<":", " ">>

\* C22: read_message takes the length of the body from the header line whose
\* key is Content-Length, in this case, followed by a colon and a space (the
\* last such line of the block), whatever the other lines of the block say,
\* and reads that many bytes after the blank line and no more as the body; a
\* block without such a line, one spelled content-length for instance, gives
\* no message, and nothing after the blank line is read.
C22_LengthFromExactKey ==
    (arg.fn = "read_headers" /\ out # <<>>) =>
        LET at == {i \in 1..Len(arg.lines) : IsLengthLine(arg.lines[i])}
            block == Len(BlockBytes(arg.lines)) + 2
            last == CHOOSE i \in at : \A j \in at : j <= i
            n == arg.lines[last].n
        IN  IF at = {}
            THEN out[1].res = OkNone("no_length") /\ out[1].used = block
            ELSE /\ out[1].used = block + n
                 /\ out[1].res = Decode(SubSeq(ShortBody \o AfterBody, 1, n))
                 /\ n = Len(ShortBody) => out[1].res = OkSome(Response(1, Null))

\* a block whose first line is spelled content-length with a wrong number
\* and whose second line is the Content-Length line has given the message
C22_OtherLineIgnored ==
    /\ arg.fn = "read_headers"
    /\ Len(arg.lines) = 2
    /\ arg.lines[1].key # CONTENT_LENGTH
    /\ arg.lines[1].key[1] = "c"
    /\ arg.lines[1].sep = <<":", " ">>
    /\ arg.lines[1].n = 1
    /\ IsLengthLine(arg.lines[2])
    /\ out # <<>>
    /\ out[1].res = OkSome(Response(1, Null))

\* the names left of the segments from index i on, acc holding those kept so
\* far: "." and the empty segment are dropped, ".." drops the name before it
\* if there is one
RECURSIVE Resolved(_, _, _)
Resolved(segs, i, acc) ==
    IF i > Len(segs) THEN acc
    ELSE IF segs[i] \in {<<>>, <<".">>} THEN Resolved(segs, i + 1, acc)
    ELSE IF segs[i] = <<".", ".">>
         THEN Resolved(segs, i + 1, SubSeq(acc, 1, Len(acc) - 1))
    ELSE Resolved(segs, i + 1, Append(acc, segs[i]))

\* C23: normalize of an absolute path is the root followed by the names that
\* are left when "." and empty components are dropped and each ".." removes
\* the name before it, a ".." at the root removing nothing: the result has
\* no ".", no ".." and no empty component, and it starts at the root.
C23_Normalized ==
    (arg.fn = "normalize" /\ out # <<>>) =>
        LET names == Resolved(arg.segs, 1, <<>>)
            res == out[1]
        IN  /\ res = PathOf(names)
            /\ res[1] = MAIN_SEPARATOR
            /\ \A i \in 1..Len(names) : names[i] \notin {<<>>, <<".">>, <<".", ".">>}
            /\ \A i \in 1..(Len(res) - 1) :
                  ~(res[i] = MAIN_SEPARATOR /\ res[i + 1] = MAIN_SEPARATOR)
            /\ Len(res) > 1 => res[Len(res)] # MAIN_SEPARATOR

\* /a/b/c/../../../../d has been normalized to /d
C23_AboveRootIgnored ==
    /\ arg.fn = "normalize"
    /\ Len(arg.segs) = 8
    /\ out = <<<<MAIN_SEPARATOR, "d">>>>

\* C24: find_project_root gives the nearest of the start directory and its
\* ancestors that holds a regular file named Cargo.toml, the start directory
\* itself when it holds one, and None when none of them does; a Cargo.toml
\* beside them, or one that is a directory, does not count; the search ends
\* after at most one look per directory.
C24_NearestRoot ==
    (arg.fn = "find" /\ out # <<>>) =>
        LET with == {k \in 0..Len(arg.names) : arg.kinds[k] = "file"}
            nearest == CHOOSE k \in with : \A j \in with : j <= k
        IN  /\ out[1].steps <= Len(arg.names) + 1
            /\ IF with = {} THEN out[1].found = <<>>
               ELSE /\ out[1].found = <<DirOf(arg.absolute, SubSeq(arg.names, 1, nearest))>>
                    /\ out[1].steps = Len(arg.names) - nearest + 1

\* the search started two levels down, passed a directory named Cargo.toml
\* and found the file one level up, though the root holds one too
C24_FoundInParent ==
    /\ arg.fn = "find"
    /\ arg.absolute
    /\ Len(arg.names) = 2
    /\ arg.kinds[2] = "dir"
    /\ arg.kinds[1] = "file"
    /\ arg.kinds[0] = "file"
    /\ out = <<[found |-> <<DirOf(TRUE, <<arg.names[1]>>)>>, steps |-> 2]>>

\* C25: when run reads the reply to a pending request and the reply carries
\* an error object in place of a result, the request leaves the
\* pending-request map and its caller is released: the channel it waits on
\* gets a value or loses its Sender.
C25_ErrorReplyReleases ==
    [][(/\ pc = "Select"
        /\ read_off = "-"
        /\ rd = NewRead
        /\ 1 \in DOMAIN pending_requests
        /\ stdout = FrameBytes([kind |-> "error_reply", id |-> 0])
        /\ stdout' = <<>>)
       => /\ 1 \notin DOMAIN pending_requests'
          /\ LET c == pending_requests[1]
             IN  chan'[c].buf # <<>> \/ ~SenderAlive(pending_requests', c)]_vars

\* C26: in every state each key of the pending-request map is at least 1
\* and less than next_request_id, and the counter never goes back; and an
\* identifier that enters the map is one that no request was given before,
\* so one that has left the map never enters it again.
C26_KeysBelowCounter ==
    /\ [](\A id \in DOMAIN pending_requests : 1 <= id /\ id < next_request_id)
    /\ [][next_request_id' >= next_request_id]_vars
    /\ [][\A id \in DOMAIN pending_requests' \ DOMAIN pending_requests :
             /\ id >= next_request_id
             /\ \A c \in 1..Len(issued) : issued[c] # id]_vars

\* the request of id 1 has left the map, and the completion request made
\* after that is pending under a new identifier
C26_NewIdAfterRemoval ==
    /\ Len(issued) >= 2
    /\ issued[1] = 1
    /\ 1 \notin DOMAIN pending_requests
    /\ pc = "Completion"
    /\ issued[Len(issued)] = next_request_id - 1
    /\ issued[Len(issued)] \in DOMAIN pending_requests

\* C27: handling a Completion intent leaves the editor's response queue as
\* it was or adds one CompletionResult at its end, behind the results of the
\* intents handled before, so results come in the order of their intents;
\* handling a DidChange intent or a message of the server, a notification
\* or a Response, leaves the queue as it was.
C27_OneResultInOrder ==
    (arg.fn = "handle" /\ out # <<>>) =>
        LET q == out[1].responses
        IN  /\ arg.kind \in {"DidChange", "Server"} => q = arg.delivered
            /\ arg.kind = "Completion" =>
                  /\ Len(q) \in {Len(arg.delivered), Len(arg.delivered) + 1}
                  /\ SubSeq(q, 1, Len(arg.delivered)) = arg.delivered
                  /\ (arg.reply = <<>> \/ ~out[1].ok) => q = arg.delivered

\* a Completion intent whose reply holds two items has been handled with an
\* earlier result on the queue, and its result stands behind that one
C27_SecondResultBehindFirst ==
    /\ arg.fn = "handle"
    /\ arg.kind = "Completion"
    /\ arg.delivered # <<>>
    /\ out # <<>>
    /\ Len(out[1].responses) = 2
    /\ out[1].responses[1] = arg.delivered[1]
    /\ Len(out[1].responses[2]) = 2

\* C28: draw_highlighted_editor starts sending only when the generation of
\* the buffer differs from the one recorded on the document and the
\* document has a path, and it records the new generation; every intent
\* that enters the queue is the DidChange of such a draw, or the Completion
\* that the same draw sends after it, both for the URI of the document;
\* between two drawings that send there is an edit, so a draw that follows
\* another with no edit in between sends nothing; and for a document without
\* a path nothing ever enters the queue.
C28_SendsOnlyAfterEdit ==
    /\ [][(editor_pc = "ready" /\ editor_pc' # "ready") =>
             /\ buffer_generation # generation
             /\ HasPath
             /\ buffer_generation' = generation
             /\ editor_pc' = "send_change"
             /\ rx' = rx]_vars
    /\ [][Len(rx') > Len(rx) =>
             \/ /\ editor_pc = "send_change"
                /\ editor_pc' = "send_completion"
                /\ rx' = Append(rx, DidChange(Uri, Text, 1))
             \/ /\ editor_pc = "send_completion"
                /\ editor_pc' = "ready"
                /\ rx' = Append(rx, Completion(Uri, [line |-> 0, character |-> 1]))]_vars
    /\ [][buffer_generation' # buffer_generation =>
             (buffer_generation # generation /\ buffer_generation' = generation)]_vars
    /\ []((editor_pc = "ready" /\ buffer_generation = generation) =>
             (~ENABLED Draw /\ ~ENABLED SendChange /\ ~ENABLED SendCompletion))
    /\ [](~HasPath => (rx = <<>> /\ editor_pc = "ready"))

\* two edits were each followed by a draw that sent its DidChange and its
\* Completion, and the generation recorded is that of the buffer
C28_TwoDrawsSent ==
    /\ HasPath
    /\ arg.fn = "editor"
    /\ generation = 2
    /\ buffer_generation = 2
    /\ editor_pc = "ready"
    /\ rx = <<DidChange(Uri, Text, 1), Completion(Uri, [line |-> 0, character |-> 1])>>
    /\ handled = <<"DidChange", "Completion">>

\* the values sent so far on channel c: the one buffered and those received
ValuesSent(c) ==
    Len(chan[c].buf) + Cardinality({i \in 1..Len(chan[c].got) : chan[c].got[i] # <<>>})

\* C29: a send of handle_server_message never waits.  No channel of a
\* request ever holds more than the one value of its capacity, and at most
\* one value is ever sent on it; a step that sends finds the channel empty
\* and its Sender in the pending-request map, and leaves the Sender out of
\* the map, so that no second send can follow.
C29_SendNeverWaits ==
    /\ [](\A c \in 1..Len(chan) : Len(chan[c].buf) <= 1 /\ ValuesSent(c) <= 1)
    /\ [][\A c \in 1..Len(chan) :
             Len(chan'[c].buf) > Len(chan[c].buf) =>
                 /\ chan[c].buf = <<>>
                 /\ chan[c].got = <<>>
                 /\ SenderAlive(pending_requests, c)
                 /\ ~SenderAlive(pending_requests', c)
                 /\ pc = "Select"
                 /\ pc' = "Select"]_vars

\* a Response was delivered on the channel of its request and waits there
\* for the task, and a second Response of the same id came and was
\* discarded, the loop going on
C29_SecondReplyNotSent ==
    /\ pc = "Select"
    /\ warnings = 1
    /\ \E c \in 1..Len(chan) :
          /\ chan[c].buf = <<ResultFor(issued[c])>>
          /\ chan[c].rx = "task"
          /\ ~SenderAlive(pending_requests, c)

=============================================================================
